---- MODULE Spec2Model ----
(***************************************************************************)
(* Model of the 5Five cricket pattern matcher                              *)
(* (src/scrapper/pattern_matcher.py, FiveCricketPatternMatcher) and of the *)
(* scraper (src/scrapper/scrapper.py, Tables247FiveCricketScraper): its    *)
(* change detector detect_changes, its match-state check and the two       *)
(* tracking loops.                                                         *)
(*                                                                         *)
(* Text values (round identifiers, card cells, score cells, signatures,    *)
(* over identifiers) are sequences of one-character strings, so that       *)
(* join, split, startswith and int() are computed as Python computes them. *)
(***************************************************************************)
EXTENDS Integers, Sequences, FiniteSets, TLC

VARIABLES
    df,           \* self.df: the rows, in the data frame's current order
    hasTs,        \* 'Timestamp' in self.df.columns
    clock,        \* the wall clock read by datetime.now()
    pc,           \* position inside analyze_patterns
    gi,           \* index of the next group of the running for-loop
    hist_overs,   \* over sequence     -> list of (timestamp, over id)
    hist_inn1,    \* 1st inn sequence  -> list of (timestamp, round id)
    hist_scores,  \* final score pair  -> list of (timestamp, round id)
    hist_full,    \* full match seq    -> list of (timestamp, round id)
    match_meta,   \* round id -> meta, as a list of [rid |-> .., ...]
    ann,          \* the eight analysis columns, by row label
    run,          \* number of the running call of analyze_patterns
    prev,         \* the four indices as the previous call left them
    current_innings,    \* self.current_innings
    previous_over_info, \* self.previous_over_info
    previous_score,     \* self.previous_score
    previous_balls,     \* self.previous_balls
    current_data,       \* the snapshot handed to the last detect_changes
    changes,            \* what the last detect_changes returned
    board,              \* the scoreboard of the match being played
    emitted,            \* events returned so far, by kind
    match_started,      \* self.match_started
    match_ended,        \* self.match_ended
    waiting_iterations, \* self.waiting_iterations
    consecutive_errors, \* self.consecutive_errors
    previous_round_id,  \* self.previous_round_id
    current_round_id,   \* self.current_round_id
    last_analyzed_over, \* self.last_analyzed_over
    loop,               \* the tracking loop the scraper is in
    page,               \* the page as the last iteration observed it
    match_state,        \* what the last check_match_state returned
    gone                \* what the iterations so far went through

matcherVars == <<df, hasTs, clock, pc, gi, hist_overs, hist_inn1, hist_scores,
                 hist_full, match_meta, ann, run, prev>>

trackerVars == <<current_innings, previous_over_info, previous_score,
                 previous_balls, current_data, changes, board, emitted>>

lifeVars == <<match_started, match_ended, waiting_iterations,
              consecutive_errors, previous_round_id, current_round_id,
              last_analyzed_over, loop, page, match_state, gone>>

vars == <<df, hasTs, clock, pc, gi, hist_overs, hist_inn1, hist_scores,
          hist_full, match_meta, ann, run, prev, current_innings,
          previous_over_info, previous_score, previous_balls, current_data,
          changes, board, emitted, match_started, match_ended,
          waiting_iterations, consecutive_errors, previous_round_id,
          current_round_id, last_analyzed_over, loop, page, match_state, gone>>

----------------------------------------------------------------------------
(* Bounds of the explored corpora *)

\* matches per corpus and greatest timestamp, corpora of whole overs
MaxMatches == 2
MaxTs == 1
\* matches per corpus and greatest timestamp, corpora of one-card innings
MaxShort == 3
MaxShortTs == 2
\* greatest reading of the wall clock
MaxClock == 3
\* calls of analyze_patterns on one object
MaxRuns == 2

----------------------------------------------------------------------------
(* Text helpers *)

Digits == <<"0", "1", "2", "3", "4", "5", "6", "7", "8", "9">>

IsDigit(c) == \E d \in 1..10 : Digits[d] = c

DigitVal(c) == (CHOOSE d \in 1..10 : Digits[d] = c) - 1

RECURSIVE Str(_)
\* str(n) / f"{n}" of a non-negative integer
Str(n) == IF n < 10 THEN <<Digits[n + 1]>>
          ELSE Str(n \div 10) \o <<Digits[(n % 10) + 1]>>

RECURSIVE IntAcc(_, _)
IntAcc(s, acc) == IF s = <<>> THEN acc
                  ELSE IntAcc(Tail(s), acc * 10 + DigitVal(Head(s)))

\* int(s) succeeds on a non-empty run of digits
IntOk(s) == s # <<>> /\ \A k \in 1..Len(s) : IsDigit(s[k])

IntVal(s) == IntAcc(s, 0)

RECURSIVE Join(_, _)
\* sep.join(parts)
Join(parts, sep) ==
    IF parts = <<>> THEN <<>>
    ELSE IF Len(parts) = 1 THEN parts[1]
    ELSE parts[1] \o <<sep>> \o Join(Tail(parts), sep)

RECURSIVE SplitAcc(_, _, _)
SplitAcc(s, sep, cur) ==
    IF s = <<>> THEN <<cur>>
    ELSE IF Head(s) = sep THEN <<cur>> \o SplitAcc(Tail(s), sep, <<>>)
    ELSE SplitAcc(Tail(s), sep, Append(cur, Head(s)))

\* s.split(sep)
Split(s, sep) == SplitAcc(s, sep, <<>>)

\* s.startswith(p)
StartsWith(s, p) == Len(p) <= Len(s) /\ SubSeq(s, 1, Len(p)) = p

RECURSIVE LStrip(_)
LStrip(s) == IF s # <<>> /\ Head(s) = " " THEN LStrip(Tail(s)) ELSE s

RECURSIVE RStrip(_)
RStrip(s) == IF s # <<>> /\ s[Len(s)] = " " THEN RStrip(SubSeq(s, 1, Len(s) - 1))
             ELSE s

\* s.strip()
Strip(s) == RStrip(LStrip(s))

NanStr == <<"n", "a", "n">>
NoneStr == <<"N", "o", "n", "e">>
CurrentInn1 == <<"C", "u", "r", "r", "e", "n", "t", " ", "I", "n", "n", "1">>

\* the cell of a column created by self.df[c] = None
NoCount == -1
NoText == <<>>

\* an over is a chunk of 6 cards
OverLen == 6

----------------------------------------------------------------------------
(* Row helpers *)

\* get_card(row)
get_card(row) == Strip(row.card)

IsCard(c) == c # <<>> /\ c # NanStr

RECURSIVE CardsOf(_)
\* the valid cards of a list of rows, in order
CardsOf(rows) ==
    IF rows = <<>> THEN <<>>
    ELSE LET c == get_card(Head(rows)) IN
         IF IsCard(c) THEN <<c>> \o CardsOf(Tail(rows)) ELSE CardsOf(Tail(rows))

\* a precedes-or-ties b under sort_values(['Timestamp', 'Ball_Number'])
\* (byTs) or under sort_values('Ball_Number')
KeyLE(a, b, byTs) ==
    IF byTs THEN a.ts < b.ts \/ (a.ts = b.ts /\ a.bn <= b.bn)
    ELSE a.bn <= b.bn

RECURSIVE InsertRow(_, _, _)
\* insertion of r behind every row that precedes or ties it
InsertRow(sorted, r, byTs) ==
    IF sorted = <<>> THEN <<r>>
    ELSE IF KeyLE(Head(sorted), r, byTs)
         THEN <<Head(sorted)>> \o InsertRow(Tail(sorted), r, byTs)
         ELSE <<r>> \o sorted

RECURSIVE sort_values(_, _)
\* DataFrame.sort_values: rows keep their labels, ties keep their order
sort_values(rows, byTs) ==
    IF rows = <<>> THEN <<>>
    ELSE InsertRow(sort_values(SubSeq(rows, 1, Len(rows) - 1), byTs),
                   rows[Len(rows)], byTs)

----------------------------------------------------------------------------
(* Grouping: self.df.groupby(round_id_col, sort=False) *)

RECURSIVE GroupKeys(_, _)
\* the round ids in order of first appearance
GroupKeys(rows, seen) ==
    IF rows = <<>> THEN seen
    ELSE IF \E k \in 1..Len(seen) : seen[k] = Head(rows).rid
         THEN GroupKeys(Tail(rows), seen)
         ELSE GroupKeys(Tail(rows), Append(seen, Head(rows).rid))

matches_grouped(frame) == GroupKeys(frame, <<>>)

IsRid(rid, r) == r.rid = rid

\* the rows of one group, in the frame's order
GroupRows(frame, rid) == LET keep(r) == IsRid(rid, r) IN SelectSeq(frame, keep)

----------------------------------------------------------------------------
(* First pass: build history (one iteration of the loop over the groups) *)

\* a row on which team 2 has progress
Team2Progress(row) == row.t2b > 0 \/ row.t2o > 0

\* position of the first row with team-2 progress, 0 when there is none
Inn2Pos(match_rows) ==
    IF \E p \in 1..Len(match_rows) : Team2Progress(match_rows[p])
    THEN CHOOSE p \in 1..Len(match_rows) :
            /\ Team2Progress(match_rows[p])
            /\ \A q \in 1..(p - 1) : ~Team2Progress(match_rows[q])
    ELSE 0

\* inn2_start_idx: the label of that row, -1 when there is none
Inn2StartIdx(match_rows) ==
    IF Inn2Pos(match_rows) = 0 THEN -1 ELSE match_rows[Inn2Pos(match_rows)].idx

inn1_rows(match_rows) ==
    IF Inn2Pos(match_rows) = 0 THEN match_rows
    ELSE SubSeq(match_rows, 1, Inn2Pos(match_rows) - 1)

inn2_rows(match_rows) ==
    IF Inn2Pos(match_rows) = 0 THEN <<>>
    ELSE SubSeq(match_rows, Inn2Pos(match_rows), Len(match_rows))

\* the chunk cards[i:i+6] of a 0-based offset i
Chunk(cards, i) ==
    SubSeq(cards, i + 1, IF i + OverLen <= Len(cards) THEN i + OverLen ELSE Len(cards))

\* f"{round_id}_{inn}_{num}"
OverId(rid, inn, num) == rid \o <<"_">> \o Str(inn) \o <<"_">> \o Str(num)

RECURSIVE OverEntriesAnyLen(_, _, _, _, _)
\* the loop without the test len(chunk) == 6
OverEntriesAnyLen(cards, i, rid, inn, t) ==
    IF i >= Len(cards) THEN <<>>
    ELSE <<[sig |-> Join(Chunk(cards, i), ","), t |-> t,
            id |-> OverId(rid, inn, (i \div OverLen) + 1),
            rid |-> rid, inn |-> inn, num |-> (i \div OverLen) + 1]>>
         \o OverEntriesAnyLen(cards, i + OverLen, rid, inn, t)

RECURSIVE OverEntries(_, _, _, _, _)
\* for i in range(0, len(cards), 6): index the chunk when it has 6 cards
OverEntries(cards, i, rid, inn, t) ==
    IF i >= Len(cards) THEN <<>>
    ELSE LET chunk == Chunk(cards, i) IN
         (IF Len(chunk) = OverLen
          THEN <<[sig |-> Join(chunk, ","), t |-> t,
                  id |-> OverId(rid, inn, (i \div OverLen) + 1),
                  \* the over the entry was built from: not stored by the
                  \* code, read only by the properties below
                  rid |-> rid, inn |-> inn, num |-> (i \div OverLen) + 1]>>
          ELSE <<>>)
         \o OverEntries(cards, i + OverLen, rid, inn, t)

\* the text int() is applied to: s.split(' ')[0].split('-')[0].split('/')[0]
RunsText(s) == Split(Split(Split(s, " ")[1], "-")[1], "/")[1]

\* the same without the split at '/'
RunsTextNoSlash(s) == Split(Split(s, " ")[1], "-")[1]

\* parse_score without the split at '/'
parse_score_no_slash(s) ==
    IF IntOk(RunsTextNoSlash(s)) THEN IntVal(RunsTextNoSlash(s)) ELSE 0

\* parse_score(s)
parse_score(s) == IF IntOk(RunsText(s)) THEN IntVal(RunsText(s)) ELSE 0

\* the entry appended whether or not the sequence is empty
Inn1EntriesAlways(inn1_seq, t, rid) == <<[sig |-> inn1_seq, t |-> t, id |-> rid]>>

\* "if inn1_seq: hist_inn1[inn1_seq].append((start_time, round_id))"
Inn1Entries(inn1_seq, t, rid) ==
    IF inn1_seq # <<>> THEN <<[sig |-> inn1_seq, t |-> t, id |-> rid]>> ELSE <<>>

\* "if len(inn1_cards) + len(inn2_cards) > 0: hist_full[full_seq].append(..)"
FullEntries(full_seq, ncards, t, rid) ==
    IF ncards > 0 THEN <<[sig |-> full_seq, t |-> t, id |-> rid]>> ELSE <<>>

\* everything one iteration of the first pass computes for a group
IndexMatch(frame, rid, withTs, now) ==
    LET match_rows == sort_values(GroupRows(frame, rid), FALSE)
        start_time == IF withTs THEN match_rows[1].ts ELSE now
        inn1_cards == CardsOf(inn1_rows(match_rows))
        inn2_cards == CardsOf(inn2_rows(match_rows))
        inn1_seq == Join(inn1_cards, ",")
        last_row == match_rows[Len(match_rows)]
        score_tuple == <<parse_score(last_row.s1), parse_score(last_row.s2)>>
        full_seq == inn1_seq \o <<"|">> \o Join(inn2_cards, ",")
    IN [inn1 |-> Inn1Entries(inn1_seq, start_time, rid),
        overs |-> OverEntries(inn1_cards, 0, rid, 1, start_time)
                  \o OverEntries(inn2_cards, 0, rid, 2, start_time),
        scores |-> <<[sig |-> score_tuple, t |-> start_time, id |-> rid]>>,
        full |-> FullEntries(full_seq, Len(inn1_cards) + Len(inn2_cards),
                             start_time, rid),
        meta |-> [rid |-> rid, start_time |-> start_time, inn1_seq |-> inn1_seq,
                  final_score |-> score_tuple, full_seq |-> full_seq,
                  inn2_start_idx |-> Inn2StartIdx(match_rows)]]

\* every entry, whatever its signature
BucketAny(hist, sig) == hist

\* hist.get(sig, []): the bucket of a signature, in insertion order
Bucket(hist, sig) == LET keep(e) == e.sig = sig IN SelectSeq(hist, keep)

\* match_meta.get(round_id)
MetaOf(meta, rid) == LET keep(m) == m.rid = rid IN SelectSeq(meta, keep)

----------------------------------------------------------------------------
(* Second pass: populate the analysis columns (one iteration per group) *)

\* the filter with <= in place of <
EarlierOrTied(bucket, start_time) ==
    LET keep(m) == m.t <= start_time IN SelectSeq(bucket, keep)

\* [m for m in bucket if m[0] < start_time]
Earlier(bucket, start_time) == LET keep(m) == m.t < start_time IN SelectSeq(bucket, keep)

\* len(matches)
CountOf(matches) == Len(matches)

\* the first match in place of the last
FirstOf(matches) == IF matches # <<>> THEN matches[1].id ELSE NoneStr

\* matches[-1][1] if matches else "None"
LastOf(matches) == IF matches # <<>> THEN matches[Len(matches)].id ELSE NoneStr

\* the same-match test of the over filter: oid.startswith(str(round_id))
SameMatch(oid, rid) == StartsWith(oid, rid)

\* the order test of the over filter, on the parts of oid.split('_')
PrecedesInMatch(oid, curr_inn_num, over_idx) ==
    LET parts == Split(oid, "_") IN
    /\ Len(parts) >= 3
    /\ IntOk(parts[2])
    /\ IntOk(parts[3])
    /\ \/ IntVal(parts[2]) < curr_inn_num
       \/ IntVal(parts[2]) = curr_inn_num /\ IntVal(parts[3]) < over_idx

\* one entry of the over bucket passes the filter
IsPrior(m, start_time, rid, curr_inn_num, over_idx) ==
    \/ m.t < start_time
    \/ /\ m.t = start_time
       /\ SameMatch(m.id, rid)
       /\ PrecedesInMatch(m.id, curr_inn_num, over_idx)

\* priors: the over ids that pass the filter, in bucket order
Priors(matches, start_time, rid, curr_inn_num, over_idx) ==
    LET keep(m) == IsPrior(m, start_time, rid, curr_inn_num, over_idx)
    IN SelectSeq(matches, keep)

RECURSIVE ValidCardIndicesShort(_, _)
\* the walk stopping one row early
ValidCardIndicesShort(subset, found) ==
    IF subset = <<>> \/ Len(found) = OverLen - 1 THEN found
    ELSE LET r == subset[Len(subset)]
             rest == SubSeq(subset, 1, Len(subset) - 1)
         IN IF IsCard(get_card(r)) THEN ValidCardIndicesShort(rest, Append(found, r.idx))
            ELSE ValidCardIndicesShort(rest, found)

RECURSIVE ValidCardIndicesLong(_, _)
\* the walk stopping one row late
ValidCardIndicesLong(subset, found) ==
    IF subset = <<>> \/ Len(found) = OverLen + 1 THEN found
    ELSE LET r == subset[Len(subset)]
             rest == SubSeq(subset, 1, Len(subset) - 1)
         IN IF IsCard(get_card(r)) THEN ValidCardIndicesLong(rest, Append(found, r.idx))
            ELSE ValidCardIndicesLong(rest, found)

RECURSIVE ValidCardIndices(_, _)
\* the labels of the last 6 rows of subset that carry a card, walking backwards
ValidCardIndices(subset, found) ==
    IF subset = <<>> \/ Len(found) = OverLen THEN found
    ELSE LET r == subset[Len(subset)]
             rest == SubSeq(subset, 1, Len(subset) - 1)
         IN IF IsCard(get_card(r)) THEN ValidCardIndices(rest, Append(found, r.idx))
            ELSE ValidCardIndices(rest, found)

\* the first 6 cards of the buffer in place of the last 6
FirstCards(cards) ==
    SubSeq(cards, 1, IF Len(cards) > OverLen THEN OverLen ELSE Len(cards))

\* curr_cards[-6:]
LastCards(cards) ==
    SubSeq(cards, IF Len(cards) > OverLen THEN Len(cards) - OverLen + 1 ELSE 1, Len(cards))

\* the test with > in place of >=
IsInn2After(idx, inn2_start) == inn2_start # -1 /\ idx > inn2_start

\* is_inn2 of a row label
IsInn2(idx, inn2_start) == inn2_start # -1 /\ idx >= inn2_start

\* the match-level cells written on innings-2 rows only
RowCellsInn2Only(c, is_inn2) ==
    [fc |-> IF is_inn2 THEN c.fs_count ELSE 0,
     fl |-> IF is_inn2 THEN c.fs_last ELSE NoneStr,
     mc |-> IF is_inn2 THEN c.fm_count ELSE 0,
     ml |-> IF is_inn2 THEN c.fm_last ELSE NoneStr,
     ic |-> IF is_inn2 THEN c.inn1_count ELSE 0,
     il |-> IF is_inn2 THEN c.inn1_last ELSE CurrentInn1,
     oc |-> 0, ol |-> NoneStr]

\* the cells a row gets before the over analysis: the match-level stats,
\* the innings-specific stats and the over defaults
RowCells(c, is_inn2) ==
    [fc |-> c.fs_count, fl |-> c.fs_last,
     mc |-> c.fm_count, ml |-> c.fm_last,
     ic |-> IF is_inn2 THEN c.inn1_count ELSE 0,
     il |-> IF is_inn2 THEN c.inn1_last ELSE CurrentInn1,
     oc |-> 0, ol |-> NoneStr]

RECURSIVE RowLoop(_, _, _, _, _)
\* for idx, row in match_rows.iterrows(): rows k.. of the group, with the
\* card buffer curr_cards and the columns a as the rows before left them
RowLoop(match_rows, k, curr_cards, a, c) ==
    IF k > Len(match_rows) THEN a
    ELSE
    LET row == match_rows[k]
        idx == row.idx
        is_inn2 == IsInn2(idx, c.inn2_start)
        buf0 == IF idx = c.inn2_start THEN <<>> ELSE curr_cards
        card == get_card(row)
        buf == IF IsCard(card) THEN Append(buf0, card) ELSE buf0
        completed == Len(buf) > 0 /\ Len(buf) % OverLen = 0
        priors == Priors(Bucket(c.hist_overs, Join(LastCards(buf), ",")),
                         c.start_time, c.rid,
                         IF is_inn2 THEN 2 ELSE 1, Len(buf) \div OverLen)
        valid == ValidCardIndices(SubSeq(match_rows, 1, k), <<>>)
        a1 == [a EXCEPT ![idx] = RowCells(c, is_inn2)]
        a2 == IF completed
              THEN [i \in DOMAIN a1 |->
                      IF \E v \in 1..Len(valid) : valid[v] = i
                      THEN [a1[i] EXCEPT !.oc = Len(priors),
                                         !.ol = IF priors # <<>>
                                                THEN priors[Len(priors)].id
                                                ELSE NoneStr]
                      ELSE a1[i]]
              ELSE a1
    IN RowLoop(match_rows, k + 1, buf, a2, c)

RECURSIVE OverQueries(_, _, _, _)
\* the over-level queries of the same loop, one for each row on which the
\* buffer holds a multiple of 6 cards: over_seq, curr_inn_num and over_idx
OverQueries(match_rows, k, curr_cards, inn2_start) ==
    IF k > Len(match_rows) THEN <<>>
    ELSE
    LET row == match_rows[k]
        idx == row.idx
        is_inn2 == IsInn2(idx, inn2_start)
        buf0 == IF idx = inn2_start THEN <<>> ELSE curr_cards
        card == get_card(row)
        buf == IF IsCard(card) THEN Append(buf0, card) ELSE buf0
        completed == Len(buf) > 0 /\ Len(buf) % OverLen = 0
    IN (IF completed
        THEN <<[sig |-> Join(LastCards(buf), ","),
                inn |-> IF is_inn2 THEN 2 ELSE 1,
                num |-> Len(buf) \div OverLen, idx |-> idx]>>
        ELSE <<>>)
       \o OverQueries(match_rows, k + 1, buf, inn2_start)

\* the match-level analysis of one group: final score, 1st innings, full match
MatchLevel(meta, hs, hi, hf) ==
    LET fs_matches == Earlier(Bucket(hs, meta.final_score), meta.start_time)
        inn1_matches == Earlier(Bucket(hi, meta.inn1_seq), meta.start_time)
        fm_matches == Earlier(Bucket(hf, meta.full_seq), meta.start_time)
    IN [fs_count |-> CountOf(fs_matches), fs_last |-> LastOf(fs_matches),
        inn1_count |-> CountOf(inn1_matches), inn1_last |-> LastOf(inn1_matches),
        fm_count |-> CountOf(fm_matches), fm_last |-> LastOf(fm_matches)]

\* everything one iteration of the second pass writes for a group
PopulateMatch(frame, rid, a, hs, hi, hf, ho, metas) ==
    LET meta == MetaOf(metas, rid)[1]
        lvl == MatchLevel(meta, hs, hi, hf)
    IN RowLoop(GroupRows(frame, rid), 1, <<>>, a,
               [rid |-> rid, start_time |-> meta.start_time,
                inn2_start |-> meta.inn2_start_idx, hist_overs |-> ho,
                fs_count |-> lvl.fs_count, fs_last |-> lvl.fs_last,
                inn1_count |-> lvl.inn1_count, inn1_last |-> lvl.inn1_last,
                fm_count |-> lvl.fm_count, fm_last |-> lvl.fm_last])

----------------------------------------------------------------------------
(* The scraper object *)

\* self.previous_score = {}: no snapshot recorded yet; a list of team rows
\* never equals the empty dict
NoScore == [set |-> FALSE, teams |-> <<>>]

\* what detect_changes returns when it finds nothing
NoChanges ==
    [new_balls |-> <<>>, score_changed |-> FALSE, over_completed |-> FALSE,
     completed_over_number |-> 0, innings_changed |-> FALSE]

\* the fields of the scraper after __init__, no tick processed yet
TrackerNew ==
    /\ current_innings = 1
    /\ previous_over_info = [over |-> 0, ball |-> 0]
    /\ previous_score = NoScore
    /\ previous_balls = <<>>
    /\ current_data = [teams |-> <<>>, ball_by_ball |-> <<>>]
    /\ changes = NoChanges
    /\ board = [t1 |-> 0, t2 |-> 0, inn |-> 1, still |-> TRUE]
    /\ emitted = [balls |-> <<0, 0>>, innings |-> 0, overs |-> << <<>>, <<>> >>]

\* extract_round_id returned None
NoRid == [read |-> FALSE, text |-> <<>>]

\* the page before any iteration has looked at it
NoPage ==
    [rid |-> NoRid, card |-> FALSE, rows |-> <<>>, balls |-> <<>>,
     result |-> FALSE, state_fault |-> FALSE, parse_fault |-> FALSE]

\* nothing gone through yet: no run of idle or failed iterations, no match
\* ended
NoneSeen == [idle |-> 0, failed |-> 0, ended_by |-> "none"]

\* the match-state fields of the scraper after __init__
LifeNew ==
    /\ match_started = FALSE
    /\ match_ended = FALSE
    /\ waiting_iterations = 0
    /\ consecutive_errors = 0
    /\ previous_round_id = NoRid
    /\ current_round_id = NoRid
    /\ last_analyzed_over = 0
    /\ loop = "new"
    /\ page = NoPage
    /\ match_state = "none"
    /\ gone = NoneSeen

----------------------------------------------------------------------------
(* The corpora explored: CSV files of whole matches, rows in play order *)

C4 == <<"4">>
C6 == <<"6">>
CA == <<"A">>
C10 == <<"1", "0">>
CK == <<"K">>

OverA == <<C4, C4, C6, CA, C10, CK>>
OverB == <<CA, CA, C6, C4, C10, CK>>

\* score cells as the scoreboard prints them: "7-1 (1.0)", "9-0 (2.0)", "12/3",
\* and an unreadable cell
Score7 == <<"7", "-", "1", " ", "(", "1", ".", "0", ")">>
Score9 == <<"9", "-", "0", " ", "(", "2", ".", "0", ")">>
Score12 == <<"1", "2", "/", "3">>
ScoreBad == <<"-", "-">>
Score0 == <<"0", "-", "0", " ", "(", "0", ".", "0", ")">>

\* round identifiers by position in the file: plain numbers, the second
\* with the first as prefix (Round_ID column), and identifiers with an
\* underscore, as generate_match_id builds them (Match_ID column)
PlainIds == << <<"1">>, <<"1", "2">>, <<"3">>, <<"4">> >>
TaggedIds == << <<"M", "_", "7">>, <<"M", "_", "8">>, <<"M", "_", "9">>, <<"M", "_", "6">> >>

\* the rows of one match: innings-1 cards c1 stamped ts, innings-2 cards c2
\* stamped lag later, final score cells sc on the last row, labels from base
MatchRows(rid, ts, lag, c1, c2, sc, base) ==
    LET n1 == Len(c1)
        n == Len(c1) + Len(c2)
    IN [k \in 1..n |->
          [idx |-> base + k - 1, rid |-> rid,
           ts |-> IF k <= n1 THEN ts ELSE ts + lag, bn |-> k,
           card |-> IF k <= n1 THEN c1[k] ELSE c2[k - n1],
           t2o |-> IF k <= n1 THEN 0 ELSE (k - n1) \div OverLen,
           t2b |-> IF k <= n1 THEN 0 ELSE (k - n1) % OverLen,
           s1 |-> IF k = n THEN sc[1] ELSE Score0,
           s2 |-> IF k = n THEN sc[2] ELSE Score0]]

RECURSIVE Corpus(_, _, _, _)
\* the file of the matches d[k..], the k-th carrying the k-th identifier
Corpus(d, ids, k, base) ==
    IF k > Len(d) THEN <<>>
    ELSE LET rows == MatchRows(ids[k], d[k].ts, d[k].lag, d[k].c1, d[k].c2,
                                   d[k].sc, base)
         IN rows \o Corpus(d, ids, k + 1, base + Len(rows))

\* matches of whole and partial overs: the same over twice in innings 1 and
\* another over in innings 2, a trailing 7th card before the innings change,
\* no innings-1 card
OverShapes ==
    {[c1 |-> OverA \o OverA, c2 |-> OverB],
     [c1 |-> OverA \o <<C4>>, c2 |-> OverA],
     [c1 |-> <<>>, c2 |-> OverA]}

OverMatches ==
    {[ts |-> t, lag |-> 0, c1 |-> sh.c1, c2 |-> sh.c2, sc |-> <<Score7, Score9>>] :
        t \in 0..MaxTs, sh \in OverShapes}

\* the matches of a file are written in the order of their timestamps
Ordered(d) == \A k \in 1..(Len(d) - 1) : d[k].ts <= d[k + 1].ts

\* files of up to MaxMatches such matches: in timestamp order under both
\* kinds of identifier, out of timestamp order under plain identifiers
OverCorpora ==
    UNION {{Corpus(d, PlainIds, 1, 0) : d \in [1..m -> OverMatches]}
           \cup {Corpus(d, TaggedIds, 1, 0) :
                   d \in {e \in [1..m -> OverMatches] : Ordered(e)}} :
           m \in 0..MaxMatches}

\* matches of one-card innings: a played match whose second innings is
\* stamped one tick after its first (its rows interleave with the rows of
\* the next match), a match still in innings 1, a match with no innings-1
\* card and an unreadable score cell
ShortShapes ==
    {[lag |-> 1, c1 |-> <<C4>>, c2 |-> <<C6>>, sc |-> <<Score7, Score9>>],
     [lag |-> 0, c1 |-> <<C4>>, c2 |-> <<>>, sc |-> <<Score12, Score0>>],
     [lag |-> 0, c1 |-> <<NanStr>>, c2 |-> <<C6>>, sc |-> <<Score12, ScoreBad>>]}

ShortMatches(maxTs) ==
    {[ts |-> t, lag |-> sh.lag, c1 |-> sh.c1, c2 |-> sh.c2, sc |-> sh.sc] :
        t \in 0..maxTs, sh \in ShortShapes}

\* files of up to MaxShort such matches, written in the order of their
\* timestamps
ShortCorpora(maxTs) ==
    UNION {{Corpus(d, PlainIds, 1, 0) :
              d \in {e \in [1..m -> ShortMatches(maxTs)] : Ordered(e)}} :
           m \in 0..MaxShort}

Labels(frame) == {r.idx : r \in {frame[k] : k \in 1..Len(frame)}}

NoneRow == [oc |-> NoCount, ol |-> NoText, ic |-> NoCount, il |-> NoText,
            fc |-> NoCount, fl |-> NoText, mc |-> NoCount, ml |-> NoText]

InitWith(corpora, withTs) ==
    /\ df \in corpora
    /\ hasTs = withTs
    /\ clock = 0
    /\ pc = "start"
    /\ gi = 1
    /\ hist_overs = <<>>
    /\ hist_inn1 = <<>>
    /\ hist_scores = <<>>
    /\ hist_full = <<>>
    /\ match_meta = <<>>
    /\ ann = <<>>
    /\ run = 1
    /\ prev = <<>>
    /\ TrackerNew
    /\ LifeNew

\* files of up to MaxMatches one-card matches, all rows stamped 0
PlainCorpora ==
    UNION {{Corpus(d, PlainIds, 1, 0) : d \in [1..m -> ShortMatches(0)]} :
           m \in 0..MaxMatches}

\* files with a Timestamp column, and files without one
Init ==
    \/ InitWith(OverCorpora \cup ShortCorpora(MaxShortTs), TRUE)
    \/ InitWith(PlainCorpora, FALSE)

----------------------------------------------------------------------------
(* analyze_patterns *)

\* the guards of entry, the sort and the grouping
Begin ==
    /\ pc = "start"
    /\ IF Len(df) = 0
       THEN /\ pc' = "done"
            /\ df' = df
       ELSE /\ pc' = "build"
            /\ df' = IF hasTs THEN sort_values(df, TRUE) ELSE df
    /\ gi' = 1
    /\ hist_overs' = <<>>
    /\ hist_inn1' = <<>>
    /\ hist_scores' = <<>>
    /\ hist_full' = <<>>
    /\ match_meta' = <<>>
    /\ UNCHANGED <<hasTs, clock, ann, run, prev>>
    /\ UNCHANGED trackerVars
    /\ UNCHANGED lifeVars

\* one iteration of "for round_id, match_rows in matches_grouped" (first pass)
BuildHistory ==
    /\ pc = "build"
    /\ gi <= Len(matches_grouped(df))
    /\ LET r == IndexMatch(df, matches_grouped(df)[gi], hasTs, clock) IN
       /\ hist_inn1' = hist_inn1 \o r.inn1
       /\ hist_overs' = hist_overs \o r.overs
       /\ hist_scores' = hist_scores \o r.scores
       /\ hist_full' = hist_full \o r.full
       /\ match_meta' = Append(match_meta, r.meta)
    /\ gi' = gi + 1
    /\ clock' \in IF hasTs \/ clock >= MaxClock THEN {clock} ELSE {clock, clock + 1}
    /\ UNCHANGED <<df, hasTs, pc, ann, run, prev>>
    /\ UNCHANGED trackerVars
    /\ UNCHANGED lifeVars

\* "for c in new_cols: if c not in self.df.columns: self.df[c] = None"
EnsureCols ==
    /\ pc = "build"
    /\ gi > Len(matches_grouped(df))
    /\ pc' = "populate"
    /\ gi' = 1
    /\ ann' = IF ann = <<>> THEN [i \in Labels(df) |-> NoneRow] ELSE ann
    /\ UNCHANGED <<df, hasTs, clock, hist_overs, hist_inn1, hist_scores,
                   hist_full, match_meta, run, prev>>
    /\ UNCHANGED trackerVars
    /\ UNCHANGED lifeVars

\* one iteration of "for round_id, match_rows in matches_grouped" (second pass)
Populate ==
    /\ pc = "populate"
    /\ gi <= Len(matches_grouped(df))
    /\ ann' = PopulateMatch(df, matches_grouped(df)[gi], ann, hist_scores,
                            hist_inn1, hist_full, hist_overs, match_meta)
    /\ gi' = gi + 1
    /\ UNCHANGED <<df, hasTs, clock, pc, hist_overs, hist_inn1, hist_scores,
                   hist_full, match_meta, run, prev>>
    /\ UNCHANGED trackerVars
    /\ UNCHANGED lifeVars

\* the end of analyze_patterns
Return ==
    /\ pc = "populate"
    /\ gi > Len(matches_grouped(df))
    /\ pc' = "done"
    /\ UNCHANGED <<df, hasTs, clock, gi, hist_overs, hist_inn1, hist_scores,
                   hist_full, match_meta, ann, run, prev>>
    /\ UNCHANGED trackerVars
    /\ UNCHANGED lifeVars

Next == Begin \/ BuildHistory \/ EnsureCols \/ Populate \/ Return

Spec == Init /\ [][Next]_vars

\* the same runs, for the statements about the entries of the four indices
SpecIndices == Init /\ [][Next]_vars

\* files written in the order of their timestamps, of either kind of
\* identifier, and files without a Timestamp column
WrittenInOrder ==
    UNION {{Corpus(d, ids, 1, 0) :
              d \in {e \in [1..m -> OverMatches] : Ordered(e)},
              ids \in {PlainIds, TaggedIds}} :
           m \in 0..MaxMatches}

InitRows ==
    \/ InitWith(WrittenInOrder \cup ShortCorpora(MaxShortTs), TRUE)
    \/ InitWith(PlainCorpora, FALSE)

\* analyze_patterns on the files a tracker appends to as the matches are played
SpecRows == InitRows /\ [][Next]_vars

----------------------------------------------------------------------------
(* Properties *)

Range(f) == {f[k] : k \in DOMAIN f}

\* the matches the first pass has recorded
Metas == Range(match_meta)

\* both passes see all four indices complete
Built == pc \in {"populate", "done"}

\* the second pass has written the rows of the group of meta m
Annotated(m) ==
    \/ pc = "done" /\ Len(df) > 0
    \/ /\ pc = "populate"
       /\ \E k \in 1..(gi - 1) : matches_grouped(df)[k] = m.rid

RowsOf(rid) == {r \in Range(df) : r.rid = rid}

Granularities == {"score", "inn1", "full"}

\* the signature of a match at a match-level granularity
SigAt(m, g) ==
    CASE g = "score" -> m.final_score
      [] g = "inn1" -> m.inn1_seq
      [] g = "full" -> m.full_seq

\* a match has a first-innings signature when it has an innings-1 card and a
\* full-match signature when it has a card at all
HasSig(m, g) ==
    CASE g = "score" -> TRUE
      [] g = "inn1" -> m.inn1_seq # <<>>
      [] g = "full" -> m.full_seq # <<"|">>

\* the other matches with the signature of m and a strictly earlier start
PriorMatches(m, g) ==
    {o \in Metas : /\ o.rid # m.rid
                   /\ HasSig(o, g)
                   /\ SigAt(o, g) = SigAt(m, g)
                   /\ o.start_time < m.start_time}

\* the count the second pass computes for m at granularity g
CountAt(m, g) ==
    LET lvl == MatchLevel(m, hist_scores, hist_inn1, hist_full) IN
    CASE g = "score" -> lvl.fs_count
      [] g = "inn1" -> lvl.inn1_count
      [] g = "full" -> lvl.fm_count

\* the count a row of m carries at granularity g
CountOn(r, g) ==
    CASE g = "score" -> ann[r.idx].fc
      [] g = "inn1" -> ann[r.idx].ic
      [] g = "full" -> ann[r.idx].mc

\* the rows of m that carry the computed count of granularity g
Carriers(m, g) ==
    {r \in RowsOf(m.rid) : g = "inn1" => IsInn2(r.idx, m.inn2_start_idx)}

\* C1: for every match and every match-level granularity the computed count
\* (and the count written on the rows that carry it) is the number of other
\* matches with the same signature and a strictly earlier start timestamp; a
\* match never counts itself nor a match with an equal start timestamp
C1_MatchCounts ==
    Built =>
      \A m \in Metas : \A g \in Granularities :
        /\ CountAt(m, g) = Cardinality(PriorMatches(m, g))
        /\ Annotated(m) =>
             \A r \in Carriers(m, g) : CountOn(r, g) = Cardinality(PriorMatches(m, g))

\* a match counted once at every granularity, beside a third match with the
\* same signatures and the same start timestamp
C1_Witness ==
    /\ pc = "done"
    /\ \E m \in Metas, o \in Metas :
         /\ o.rid # m.rid
         /\ o.start_time = m.start_time
         /\ \A g \in Granularities :
              /\ HasSig(o, g) /\ SigAt(o, g) = SigAt(m, g)
              /\ Carriers(m, g) # {}
              /\ \A r \in Carriers(m, g) : CountOn(r, g) = 1

----------------------------------------------------------------------------
(* Overs of a match, read from its rows *)

\* the rows of a match in ball order
PlayRows(rid) == sort_values(GroupRows(df, rid), FALSE)

\* the rows of one innings of a match that carry a card, in ball order: a
\* row belongs to innings 2 when it shows team-2 progress
InnCardRows(rid, inn) ==
    LET keep(r) == IsCard(get_card(r)) /\ (Team2Progress(r) <=> inn = 2)
    IN SelectSeq(PlayRows(rid), keep)

\* the completed overs of a match, as <<innings, over number>>
OversOf(rid) ==
    {<<inn, num>> : inn \in {1}, num \in 1..(Len(InnCardRows(rid, 1)) \div OverLen)}
    \cup
    {<<inn, num>> : inn \in {2}, num \in 1..(Len(InnCardRows(rid, 2)) \div OverLen)}

\* the six rows of a completed over
OverRows(rid, o) ==
    SubSeq(InnCardRows(rid, o[1]), OverLen * (o[2] - 1) + 1, OverLen * o[2])

\* its signature
OverSig(rid, o) == Join(CardsOf(OverRows(rid, o)), ",")

\* the row on which it completes
LastRow(rid, o) == OverRows(rid, o)[OverLen]

\* <<innings, over number>> a precedes b
Before(a, b) == a[1] < b[1] \/ (a[1] = b[1] /\ a[2] < b[2])

\* the index entries (by position) that count for over o of match m: same
\* signature, and strictly earlier or an earlier over of m itself
PriorOvers(m, o) ==
    {j \in 1..Len(hist_overs) :
        /\ hist_overs[j].sig = OverSig(m.rid, o)
        /\ \/ hist_overs[j].t < m.start_time
           \/ /\ hist_overs[j].rid = m.rid
              /\ Before(<<hist_overs[j].inn, hist_overs[j].num>>, o)}

\* C2: the count written for a completed over is the number of index entries
\* with its signature that are strictly earlier than the match or are earlier
\* overs of the match itself, whatever the form of the round identifier; a
\* single such entry is reported as the last occurrence
C2_OverCounts ==
    \A m \in Metas : Annotated(m) =>
      \A o \in OversOf(m.rid) :
        /\ ann[LastRow(m.rid, o).idx].oc = Cardinality(PriorOvers(m, o))
        /\ \A j \in PriorOvers(m, o) :
             PriorOvers(m, o) = {j} => ann[LastRow(m.rid, o).idx].ol = hist_overs[j].id

\* the entries the over filter includes for over o of match m
Included(m, o) ==
    Range(Priors(Bucket(hist_overs, OverSig(m.rid, o)), m.start_time, m.rid, o[1], o[2]))

\* an entry of another match with the start timestamp of m
TiedStranger(e, m) == e.rid # m.rid /\ e.t = m.start_time

\* C3: the over filter never includes an entry of another match whose
\* timestamp equals the start timestamp of the target match, and never
\* reports one as last occurrence
C3_NoTiedStranger ==
    Built =>
      \A m \in Metas : \A o \in OversOf(m.rid) :
        /\ \A e \in Included(m, o) : ~TiedStranger(e, m)
        /\ Annotated(m) =>
             \A e \in Range(hist_overs) :
               TiedStranger(e, m) => ann[LastRow(m.rid, o).idx].ol # e.id

\* the index of a match-level granularity
HistOf(g) ==
    CASE g = "score" -> hist_scores
      [] g = "inn1" -> hist_inn1
      [] g = "full" -> hist_full

\* the entries a match-level query includes
IncludedAt(m, g) ==
    {e \in Range(HistOf(g)) : e.sig = SigAt(m, g) /\ e.t < m.start_time}

\* the last occurrence a row of m carries at granularity g
LastOn(r, g) ==
    CASE g = "score" -> ann[r.idx].fl
      [] g = "inn1" -> ann[r.idx].il
      [] g = "full" -> ann[r.idx].ml

\* id is the identifier of an entry of inc with the greatest timestamp, and
\* the sentinel exactly when inc is empty
LatestOf(id, inc) ==
    /\ id = NoneStr <=> inc = {}
    /\ inc # {} => \E e \in inc : e.id = id /\ \A o \in inc : o.t <= e.t

\* C4: every reported last occurrence is the identifier of the included
\* entry with the greatest timestamp, and "None" exactly when no entry is
\* included
C4_LastIsLatest ==
    \A m \in Metas : Annotated(m) =>
      /\ \A g \in Granularities : \A r \in Carriers(m, g) :
           LatestOf(LastOn(r, g), IncludedAt(m, g))
      /\ \A o \in OversOf(m.rid) :
           LatestOf(ann[LastRow(m.rid, o).idx].ol, Included(m, o))

\* a match preceded by two matches of different timestamps with its final
\* score, and an over preceded by an over of an earlier match and by an
\* over of its own match
C4_Witness ==
    /\ pc = "done"
    /\ \/ \E m \in Metas : \E a \in IncludedAt(m, "score"), b \in IncludedAt(m, "score") :
            /\ a.t < b.t
            /\ \A r \in RowsOf(m.rid) : ann[r.idx].fl = b.id
       \/ \E m \in Metas : \E o \in OversOf(m.rid) : \E a \in Included(m, o), b \in Included(m, o) :
            /\ a.t < b.t
            /\ ann[LastRow(m.rid, o).idx].ol = b.id

\* C5: every entry of the over index is the signature of 6 consecutive cards
\* of one innings of its match, at an offset that is a multiple of 6; a
\* trailing group of fewer than 6 cards is not indexed and no entry spans the
\* innings change
C5_OversWhole ==
    /\ \A e \in Range(hist_overs) :
         /\ <<e.inn, e.num>> \in OversOf(e.rid)
         /\ e.sig = OverSig(e.rid, <<e.inn, e.num>>)
    /\ \A m \in Metas :
         Cardinality({j \in 1..Len(hist_overs) : hist_overs[j].rid = m.rid})
           = Cardinality(OversOf(m.rid))

\* an indexed match with 7 innings-1 cards and 6 innings-2 cards
C5_Witness ==
    /\ Built
    /\ \E m \in Metas :
         /\ Len(InnCardRows(m.rid, 1)) = OverLen + 1
         /\ OversOf(m.rid) = {<<1, 1>>, <<2, 1>>}
         /\ \E e \in Range(hist_overs) : e.rid = m.rid /\ e.inn = 2

----------------------------------------------------------------------------
(* What a match adds to the indices *)

\* the entries of an index that name the match (over entries by their match)
EntriesOf(hist, rid) == {j \in 1..Len(hist) : hist[j].id = rid}

OverEntriesOf(rid) == {j \in 1..Len(hist_overs) : hist_overs[j].rid = rid}

\* every completed innings-2 over of the match has its entry
Inn2OversIndexed(rid) ==
    \A o \in OversOf(rid) :
      o[1] = 2 => \E j \in OverEntriesOf(rid) :
                    /\ hist_overs[j].inn = 2
                    /\ hist_overs[j].num = o[2]
                    /\ hist_overs[j].sig = OverSig(rid, o)

\* C8 as stated: a match with no innings-1 card adds no first-innings entry
\* and no full-match entry, and its completed innings-2 overs and its final
\* score are indexed
C8_NoInn1NoFull ==
    Built =>
      \A m \in Metas : InnCardRows(m.rid, 1) = <<>> =>
        /\ EntriesOf(hist_inn1, m.rid) = {}
        /\ EntriesOf(hist_full, m.rid) = {}
        /\ EntriesOf(hist_scores, m.rid) # {}
        /\ Inn2OversIndexed(m.rid)

\* C8 amended: a match with no innings-1 card adds no first-innings entry;
\* with an innings-2 card it adds one full-match entry, whose signature is
\* "|" followed by its innings-2 cards; its completed innings-2 overs and its
\* final score are indexed
C8_NoInn1FullFromInn2 ==
    Built =>
      \A m \in Metas : InnCardRows(m.rid, 1) = <<>> =>
        /\ EntriesOf(hist_inn1, m.rid) = {}
        /\ InnCardRows(m.rid, 2) # <<>> =>
             /\ Cardinality(EntriesOf(hist_full, m.rid)) = 1
             /\ \A j \in EntriesOf(hist_full, m.rid) :
                  hist_full[j].sig = <<"|">> \o Join(CardsOf(InnCardRows(m.rid, 2)), ",")
        /\ Cardinality(EntriesOf(hist_scores, m.rid)) = 1
        /\ Inn2OversIndexed(m.rid)

\* an indexed match with no innings-1 card and a whole innings-2 over
C8_Witness ==
    /\ Built
    /\ \E m \in Metas :
         /\ InnCardRows(m.rid, 1) = <<>>
         /\ <<2, 1>> \in OversOf(m.rid)
         /\ EntriesOf(hist_full, m.rid) # {}
         /\ EntriesOf(hist_inn1, m.rid) = {}

\* the final score cells of a match: those of its last row in ball order
FinalCells(rid) ==
    LET last == PlayRows(rid)[Len(PlayRows(rid))] IN <<last.s1, last.s2>>

RECURSIVE FirstField(_)
\* the text of a score cell before its first space, '-' or '/'
FirstField(cell) ==
    IF cell = <<>> \/ Head(cell) \in {" ", "-", "/"} THEN <<>>
    ELSE <<Head(cell)>> \o FirstField(Tail(cell))

\* a score cell whose first field is not a number
Unreadable(cell) == ~IntOk(FirstField(cell))

Malformed(rid) ==
    \/ Unreadable(FinalCells(rid)[1])
    \/ Unreadable(FinalCells(rid)[2])
    \/ ~hasTs

\* C9 as stated: a match with an unreadable final score, or without
\* timestamp, adds no entry to any of the four indices, and every other
\* match is indexed
C9_MalformedExcluded ==
    Built =>
      \A m \in Metas :
        IF Malformed(m.rid)
        THEN /\ EntriesOf(hist_scores, m.rid) = {}
             /\ EntriesOf(hist_inn1, m.rid) = {}
             /\ EntriesOf(hist_full, m.rid) = {}
             /\ OverEntriesOf(m.rid) = {}
        ELSE EntriesOf(hist_scores, m.rid) # {}

\* the runs the code reads from a score cell
RunsRead(cell) == IF Unreadable(cell) THEN 0 ELSE IntVal(FirstField(cell))

\* C9 amended: every match of the corpus is indexed, readable or not: it has
\* one final-score entry, with an unreadable score read as 0 runs, and its
\* first-innings, full-match and over entries as its cards give them; in a
\* corpus without timestamp field the entries carry the wall-clock reading
\* taken when the match is indexed
C9_MalformedIndexed ==
    Built =>
      /\ \A k \in 1..Len(matches_grouped(df)) :
           \E m \in Metas : m.rid = matches_grouped(df)[k]
      /\ \A m \in Metas :
           /\ Cardinality(EntriesOf(hist_scores, m.rid)) = 1
           /\ \A j \in EntriesOf(hist_scores, m.rid) :
                /\ hist_scores[j].sig = <<RunsRead(FinalCells(m.rid)[1]),
                                          RunsRead(FinalCells(m.rid)[2])>>
                /\ hist_scores[j].t = m.start_time
           /\ EntriesOf(hist_inn1, m.rid) # {} <=> InnCardRows(m.rid, 1) # <<>>
           /\ EntriesOf(hist_full, m.rid) # {}
                <=> InnCardRows(m.rid, 1) # <<>> \/ InnCardRows(m.rid, 2) # <<>>
           /\ Cardinality(OverEntriesOf(m.rid)) = Cardinality(OversOf(m.rid))
           /\ IF hasTs THEN m.start_time = PlayRows(m.rid)[1].ts
              ELSE m.start_time \in 0..clock

\* an indexed match with an unreadable score cell, read as 0 runs, beside
\* another indexed match
C9_Witness ==
    /\ Built
    /\ \E m \in Metas, o \in Metas :
         /\ o.rid # m.rid
         /\ Unreadable(FinalCells(m.rid)[2])
         /\ \E j \in EntriesOf(hist_scores, m.rid) : hist_scores[j].sig[2] = 0
         /\ EntriesOf(hist_scores, o.rid) # {}

\* the first-innings count and last occurrence of m are on row r
CarriesInn1(r, m) ==
    /\ ann[r.idx].ic = Cardinality(PriorMatches(m, "inn1"))
    /\ LatestOf(ann[r.idx].il, IncludedAt(m, "inn1"))

\* row r carries 0 / "Current Inn1"
CarriesCurrent(r) == ann[r.idx].ic = 0 /\ ann[r.idx].il = CurrentInn1

\* the match has a row of innings 2
HasInn2(rid) == \E r \in RowsOf(rid) : Team2Progress(r)

\* C10 as stated: every row of a match that has an innings 2, its innings-1
\* rows included, carries the computed first-innings count and last
\* occurrence; the rows of a match still in innings 1 carry 0 / "Current Inn1"
C10_AllRowsCarryInn1 ==
    \A m \in Metas : Annotated(m) =>
      \A r \in RowsOf(m.rid) :
        IF HasInn2(m.rid) THEN CarriesInn1(r, m) ELSE CarriesCurrent(r)

\* C10 amended: the rows of innings 2 (from the first row with team-2
\* progress on) carry the computed first-innings count and last occurrence;
\* the innings-1 rows of every match, with or without an innings 2, carry
\* 0 / "Current Inn1"
C10_Inn2RowsCarryInn1 ==
    \A m \in Metas : Annotated(m) =>
      \A r \in RowsOf(m.rid) :
        IF Team2Progress(r) THEN CarriesInn1(r, m) ELSE CarriesCurrent(r)

\* a match whose first innings occurred once before: its innings-2 rows
\* carry count 1, its innings-1 rows 0 / "Current Inn1"
C10_Witness ==
    /\ pc = "done"
    /\ \E m \in Metas :
         /\ Cardinality(PriorMatches(m, "inn1")) = 1
         /\ \E r \in RowsOf(m.rid) : Team2Progress(r) /\ ann[r.idx].ic = 1
         /\ \E r \in RowsOf(m.rid) : ~Team2Progress(r) /\ CarriesCurrent(r)

----------------------------------------------------------------------------
(* What the rows of a match carry after annotation *)

\* the result of the over-level query for over o of match m
OverQuery(m, o) ==
    LET priors == Priors(Bucket(hist_overs, OverSig(m.rid, o)), m.start_time,
                         m.rid, o[1], o[2])
    IN [count |-> Len(priors),
        last |-> IF priors # <<>> THEN priors[Len(priors)].id ELSE NoneStr]

\* C11: each of the 6 rows of every completed over carries the count and the
\* last occurrence of the over-level query of its own over, so that no row
\* is left with the value of another over
C11_OverRowsCarryResult ==
    \A m \in Metas : Annotated(m) =>
      \A o \in OversOf(m.rid) :
        LET rows == OverRows(m.rid, o)
            result == OverQuery(m, o)
        IN \A k \in 1..OverLen :
             /\ ann[rows[k].idx].oc = result.count
             /\ ann[rows[k].idx].ol = result.last

\* a match with two completed overs of different results, the first row of
\* the later over carrying a count the last row of the earlier does not
C11_Witness ==
    /\ pc = "done"
    /\ \E m \in Metas : \E o \in OversOf(m.rid), q \in OversOf(m.rid) :
         /\ Before(o, q)
         /\ OverQuery(m, o).count < OverQuery(m, q).count
         /\ ann[OverRows(m.rid, q)[1].idx].oc = OverQuery(m, q).count
         /\ ann[OverRows(m.rid, o)[OverLen].idx].oc = OverQuery(m, o).count

\* the rows of a match outside its completed overs: the trailing rows of an
\* innings that never made 6 cards, and rows without a card
SpareRows(rid) ==
    LET whole(cards) == SubSeq(cards, 1, OverLen * (Len(cards) \div OverLen))
    IN RowsOf(rid) \ (Range(whole(InnCardRows(rid, 1)))
                        \cup Range(whole(InnCardRows(rid, 2))))

\* C12: every row of an over that never reached 6 cards carries count 0 and
\* last occurrence "None"
C12_SpareRowsSentinel ==
    \A m \in Metas : Annotated(m) =>
      \A r \in SpareRows(m.rid) :
        ann[r.idx].oc = 0 /\ ann[r.idx].ol = NoneStr

\* a 7th card of innings 1 carrying the sentinel while the over completed
\* right after it, in innings 2, carries a count
C12_Witness ==
    /\ pc = "done"
    /\ \E m \in Metas : \E r \in SpareRows(m.rid) :
         /\ IsCard(get_card(r))
         /\ ann[r.idx].oc = 0
         /\ <<2, 1>> \in OversOf(m.rid)
         /\ ann[LastRow(m.rid, <<2, 1>>).idx].oc > 0

\* C13: all rows of a match carry the same final-score count and last
\* occurrence and the same full-match count and last occurrence
C13_MatchCellsSame ==
    \A m \in Metas : Annotated(m) =>
      \A r \in RowsOf(m.rid), q \in RowsOf(m.rid) :
        /\ ann[r.idx].fc = ann[q.idx].fc
        /\ ann[r.idx].fl = ann[q.idx].fl
        /\ ann[r.idx].mc = ann[q.idx].mc
        /\ ann[r.idx].ml = ann[q.idx].ml

\* a match seen before, its innings-1 row and its innings-2 row carrying
\* the counts
C13_Witness ==
    /\ pc = "done"
    /\ \E m \in Metas : \E r \in RowsOf(m.rid), q \in RowsOf(m.rid) :
         /\ ~Team2Progress(r)
         /\ Team2Progress(q)
         /\ ann[r.idx].fc > 0
         /\ ann[q.idx].mc > 0

----------------------------------------------------------------------------
(* A whole call of analyze_patterns on a file with a Timestamp column *)

RECURSIVE BuildAll(_, _, _)
\* the first pass over the groups k.. of a sorted frame, from the indices acc
BuildAll(frame, k, acc) ==
    IF k > Len(matches_grouped(frame)) THEN acc
    ELSE LET r == IndexMatch(frame, matches_grouped(frame)[k], TRUE, 0) IN
         BuildAll(frame, k + 1,
                  [overs |-> acc.overs \o r.overs, inn1 |-> acc.inn1 \o r.inn1,
                   scores |-> acc.scores \o r.scores, full |-> acc.full \o r.full,
                   meta |-> Append(acc.meta, r.meta)])

RECURSIVE PopulateAll(_, _, _, _)
\* the second pass over the groups k.. of a sorted frame
PopulateAll(frame, k, a, h) ==
    IF k > Len(matches_grouped(frame)) THEN a
    ELSE PopulateAll(frame, k + 1,
                     PopulateMatch(frame, matches_grouped(frame)[k], a,
                                   h.scores, h.inn1, h.full, h.overs, h.meta),
                     h)

\* the analysis columns analyze_patterns leaves on a file
Analyze(file) ==
    LET frame == sort_values(file, TRUE)
        h == BuildAll(frame, 1, [overs |-> <<>>, inn1 |-> <<>>, scores |-> <<>>,
                                 full |-> <<>>, meta |-> <<>>])
    IN PopulateAll(frame, 1, [i \in Labels(frame) |-> NoneRow], h)

\* the file without the rows of one match, rows relabelled by position
NewLabel(r, rid) ==
    Cardinality({x \in Range(df) : x.rid # rid /\ x.idx < r.idx})

Without(rid) ==
    LET keep(r) == r.rid # rid
        rest == SelectSeq(df, keep)
    IN [k \in 1..Len(rest) |-> [rest[k] EXCEPT !.idx = NewLabel(rest[k], rid)]]

\* match e has an indexed over with the signature sig
HasOverSig(e, sig) ==
    \E j \in OverEntriesOf(e.rid) : hist_overs[j].sig = sig

\* C7: for a completed over of a match, the over-level count with an
\* earlier match in the corpus is never below the count without that match,
\* and count and last occurrence are the same when the earlier match has no
\* over with the signature
C7_EarlierMatchMonotone ==
    (pc = "done" /\ hasTs) =>
      \A e \in Metas :
        LET without == Analyze(Without(e.rid)) IN
        \A m \in Metas : (m.rid # e.rid /\ e.start_time < m.start_time) =>
          \A o \in OversOf(m.rid) :
            LET with == ann[LastRow(m.rid, o).idx]
                wout == without[NewLabel(LastRow(m.rid, o), e.rid)]
            IN /\ with.oc >= wout.oc
               /\ ~HasOverSig(e, OverSig(m.rid, o)) =>
                    with.oc = wout.oc /\ with.ol = wout.ol

\* an over counted once more because of an earlier match with its signature
C7_Witness ==
    /\ pc = "done"
    /\ hasTs
    /\ \E e \in Metas, m \in Metas :
         /\ m.rid # e.rid
         /\ e.start_time < m.start_time
         /\ \E o \in OversOf(m.rid) :
              /\ HasOverSig(e, OverSig(m.rid, o))
              /\ ann[LastRow(m.rid, o).idx].oc
                   > Analyze(Without(e.rid))[NewLabel(LastRow(m.rid, o), e.rid)].oc

----------------------------------------------------------------------------
(* analyze_patterns called again on the same object *)

\* files of up to MaxMatches one-card matches or single overs
RerunMatches ==
    ShortMatches(0) \cup {[ts |-> 0, lag |-> 0, c1 |-> OverA, c2 |-> <<>>, sc |-> <<Score7, Score9>>]}

RerunCorpora ==
    UNION {{Corpus(d, PlainIds, 1, 0) : d \in [1..m -> RerunMatches]} :
           m \in 0..MaxMatches}

InitRerun ==
    \/ InitWith(RerunCorpora, TRUE)
    \/ InitWith(RerunCorpora, FALSE)

\* the caller keeps the indices of the call that returned and calls again
Rerun ==
    /\ pc = "done"
    /\ run < MaxRuns
    /\ run' = run + 1
    /\ prev' = <<hist_overs, hist_inn1, hist_scores, hist_full>>
    /\ pc' = "start"
    /\ UNCHANGED <<df, hasTs, clock, gi, hist_overs, hist_inn1, hist_scores,
                   hist_full, match_meta, ann>>
    /\ UNCHANGED trackerVars
    /\ UNCHANGED lifeVars

NextRerun == Next \/ Rerun

SpecRerun == InitRerun /\ [][NextRerun]_vars

\* C6: the four indices built by a second call on the same corpus equal the
\* indices built by the first call, with or without a timestamp field
C6_RebuildSame ==
    (run > 1 /\ Built) => <<hist_overs, hist_inn1, hist_scores, hist_full>> = prev

----------------------------------------------------------------------------
(* detect_changes *)

\* a key the scoreboard parse did not set on a team row
Absent == -1

\* team.get(key, 0) or 0
Get0(v) == IF v = Absent THEN 0 ELSE v

\* balls of one over, as in over * 6 + ball
BallsPerOver == 6

Unknown == <<"?">>

\* RUNS_TO_CARD.get(runs_numeric, '?')
RunsToCard(n) ==
    CASE n = 0 -> C10
      [] n = 1 -> CA
      [] n = 2 -> <<"2">>
      [] n = 3 -> <<"3">>
      [] n = 4 -> C4
      [] n = 6 -> C6
      [] n = -1 -> CK
      [] OTHER -> Unknown

\* runs_display in ['W', 'ww']
IsWicketText(r) == r \in {<<"W">>, <<"w", "w">>}

\* the batting team of the tracked innings has a row in the snapshot
HasBatting(teams, innings) ==
    IF innings = 1 THEN Len(teams) > 0 ELSE Len(teams) > 1

\* the row of team 1 whatever the innings
BattingTeamFirst(teams, innings) == teams[1]

\* its row: team 1 in the 1st innings, team 2 in the 2nd
BattingTeam(teams, innings) == IF innings = 1 THEN teams[1] ELSE teams[2]

\* over * 6 + ball
TotalBalls(over, ball) == over * BallsPerOver + ball

\* the test that also takes an unchanged total for a new ball
BallAdvancedOrSame(current_total_balls, prev_total_balls) ==
    current_total_balls >= prev_total_balls

\* the test that ignores the total recorded
BallAdvancedFromZero(current_total_balls, prev_total_balls) ==
    current_total_balls > 0

\* "if current_total_balls > prev_total_balls"
BallAdvanced(current_total_balls, prev_total_balls) ==
    current_total_balls > prev_total_balls

\* ball_data of the new ball, from the last element of the ball-by-ball display
BallData(current_balls, current_over, current_ball) ==
    LET shown == current_balls # <<>>
        last_ball == current_balls[Len(current_balls)]
        runs_display == IF shown THEN last_ball.runs ELSE Unknown
        is_wicket == shown /\ (last_ball.is_wicket \/ IsWicketText(runs_display))
        numeric == shown /\ (IsWicketText(runs_display) \/ IntOk(runs_display))
        runs_numeric == IF IsWicketText(runs_display) THEN -1 ELSE IntVal(runs_display)
    IN [runs |-> runs_display,
        card |-> IF is_wicket THEN CK
                 ELSE IF numeric THEN RunsToCard(runs_numeric) ELSE Unknown,
        card_runs |-> IF numeric THEN [numeric |-> TRUE, value |-> runs_numeric]
                      ELSE [numeric |-> FALSE, text |-> runs_display],
        ball_position |-> IF current_ball > 0 THEN current_ball ELSE 6,
        over |-> current_over,
        ball |-> current_ball,
        is_four |-> shown /\ last_ball.is_four,
        is_six |-> shown /\ last_ball.is_six,
        is_wicket |-> is_wicket,
        is_dot |-> shown /\ runs_display = <<"0">>]

\* the test without the over counter recorded
OverDoneAtZero(current_over, current_ball, prev_over) ==
    current_ball = 0 /\ current_over > 0

\* the test without the ball counter
OverDoneAnyBall(current_over, current_ball, prev_over) ==
    current_over > prev_over /\ current_over > 0

\* the test that takes an unchanged over counter as well
OverDoneAgain(current_over, current_ball, prev_over) ==
    current_ball = 0 /\ current_over >= prev_over /\ current_over > 0

\* "if current_ball == 0 and current_over > prev_over and current_over > 0"
OverDone(current_over, current_ball, prev_over) ==
    current_ball = 0 /\ current_over > prev_over /\ current_over > 0

\* no comparison: every snapshot counts as a change
ScoreDiffersAlways(current_teams, score) == TRUE

\* the comparison of the runs alone
ScoreDiffersByRuns(current_teams, score) ==
    \/ ~score.set
    \/ Len(current_teams) # Len(score.teams)
    \/ \E k \in 1..Len(current_teams) : current_teams[k].runs # score.teams[k].runs

\* "if current_teams != self.previous_score"
ScoreDiffers(current_teams, score) ==
    ~score.set \/ current_teams # score.teams

\* the start of the 2nd innings seen in the over counter only
Inn2StartsByOver(current_teams, innings) ==
    /\ Len(current_teams) >= 2
    /\ Get0(current_teams[2].current_over) > 0
    /\ innings = 1

\* "if (team2_over > 0 or team2_ball > 0) and self.current_innings == 1"
Inn2Starts(current_teams, innings) ==
    /\ Len(current_teams) >= 2
    /\ \/ Get0(current_teams[2].current_over) > 0
       \/ Get0(current_teams[2].current_ball) > 0
    /\ innings = 1

\* the baseline left as the 1st innings had it
BaselineKept(over_info) == over_info

\* "self.previous_over_info = {'over': 0, 'ball': 0}" on innings change
BaselineReset(over_info) == [over |-> 0, ball |-> 0]

\* detect_changes(current_data) on the fields st of the scraper: the
\* returned changes and the fields as the call leaves them
detect_changes(data, st) ==
    LET current_balls == data.ball_by_ball
        current_teams == data.teams
        batting == HasBatting(current_teams, st.innings)
        batting_team == BattingTeam(current_teams, st.innings)
        current_over == Get0(batting_team.current_over)
        current_ball == Get0(batting_team.current_ball)
        prev_over == st.over_info.over
        prev_ball == st.over_info.ball
        new_ball == /\ batting
                    /\ BallAdvanced(TotalBalls(current_over, current_ball),
                                    TotalBalls(prev_over, prev_ball))
        over_completed == batting /\ OverDone(current_over, current_ball, prev_over)
        over_info1 == IF batting THEN [over |-> current_over, ball |-> current_ball]
                      ELSE st.over_info
        score_changed == ScoreDiffers(current_teams, st.score)
        innings_changed == score_changed /\ Inn2Starts(current_teams, st.innings)
    IN [changes |->
          [new_balls |-> IF new_ball
                         THEN <<BallData(current_balls, current_over, current_ball)>>
                         ELSE <<>>,
           score_changed |-> score_changed,
           over_completed |-> over_completed,
           completed_over_number |-> IF over_completed THEN current_over ELSE 0,
           innings_changed |-> innings_changed],
        innings |-> IF innings_changed THEN 2 ELSE st.innings,
        over_info |-> IF innings_changed THEN BaselineReset(over_info1) ELSE over_info1,
        score |-> IF score_changed THEN [set |-> TRUE, teams |-> current_teams]
                  ELSE st.score,
        balls |-> current_balls]

\* the fields detect_changes reads and writes
TrackerFields ==
    [innings |-> current_innings, over_info |-> previous_over_info,
     score |-> previous_score, balls |-> previous_balls]

\* the events returned so far with those of one more call: the innings
\* changes, and with tally the balls and the over numbers by tracked innings
Tallied(ch, innings, tally) ==
    [innings |-> emitted.innings + IF ch.innings_changed THEN 1 ELSE 0,
     balls |-> IF tally
               THEN [emitted.balls EXCEPT ![innings] = @ + Len(ch.new_balls)]
               ELSE emitted.balls,
     overs |-> IF tally /\ ch.over_completed
               THEN [emitted.overs EXCEPT
                       ![innings] = Append(@, ch.completed_over_number)]
               ELSE emitted.overs]

\* one call of detect_changes on the snapshot data
Detect(data, tally) ==
    LET r == detect_changes(data, TrackerFields) IN
    /\ current_data' = data
    /\ changes' = r.changes
    /\ current_innings' = r.innings
    /\ previous_over_info' = r.over_info
    /\ previous_score' = r.score
    /\ previous_balls' = r.balls
    /\ emitted' = Tallied(r.changes, current_innings, tally)

----------------------------------------------------------------------------
(* The tracker polling arbitrary snapshots *)

\* greatest over counter of a polled team row
MaxOver == 2

\* a team row as extract_match_info parses it from "runs-wickets (over.ball)"
TeamRow(wickets, over, ball) ==
    [runs |-> 0, wickets |-> wickets, current_over |-> over, current_ball |-> ball]

\* a row whose score text did not parse: none of the keys is set
BlankRow ==
    [runs |-> Absent, wickets |-> Absent, current_over |-> Absent,
     current_ball |-> Absent]

\* ball counters polled: the start of an over and its last ball
PolledBalls == {0, 5}

\* wickets polled on the row of team 1
PolledWickets == {0, 1}

Team1Rows ==
    {TeamRow(w, o, b) : w \in PolledWickets, o \in 0..MaxOver, b \in PolledBalls}
    \cup {BlankRow}

\* team 2 polled up to the end of its second over
Team2Rows ==
    {TeamRow(0, o, b) : o \in 0..1, b \in PolledBalls} \cup {BlankRow}

\* the scorecard rows of a snapshot: none, team 1 alone, both teams
PolledTeams ==
    {<<>>} \cup {<<a>> : a \in Team1Rows}
           \cup {<<a, b>> : a \in Team1Rows, b \in Team2Rows}

\* the ball-by-ball display: empty, or ending in a four
FourBall == [runs |-> C4, is_four |-> TRUE, is_six |-> FALSE, is_wicket |-> FALSE]

PolledBallLists == {<<>>, <<FourBall>>}

\* a scraper just built, no file loaded in the matcher
InitDetect == InitWith({<<>>}, TRUE)

\* one iteration of the tracking loop: a snapshot is extracted and handed
\* to detect_changes
Poll ==
    /\ \E teams \in PolledTeams, balls \in PolledBallLists :
         Detect([teams |-> teams, ball_by_ball |-> balls], FALSE)
    /\ UNCHANGED board
    /\ UNCHANGED lifeVars
    /\ UNCHANGED matcherVars

NextDetect == Poll

SpecDetect == InitDetect /\ [][NextDetect]_vars

\* the balls a team row shows as faced
Faced(row) == Get0(row.current_over) * BallsPerOver + Get0(row.current_ball)

\* the row of the team batting in the tracked innings, in the snapshot data
Batting(data, innings) == data.teams[IF innings = 1 THEN 1 ELSE 2]

Shown(data, innings) == Len(data.teams) >= (IF innings = 1 THEN 1 ELSE 2)

\* the total recorded by the ticks before
Recorded == previous_over_info.over * BallsPerOver + previous_over_info.ball

\* C14: a tick returns exactly one new ball when the balls faced by the
\* batting team exceed the total recorded at the previous tick, and no new
\* ball otherwise
C14_OneBallPerRise ==
    [][LET data == current_data'
           rose == /\ Shown(data, current_innings)
                   /\ Faced(Batting(data, current_innings)) > Recorded
       IN Len(changes'.new_balls) = IF rose THEN 1 ELSE 0]_vars

\* a tick that went from (2,0) to (2,5): one new ball, no over completed
C14_Witness ==
    /\ Len(changes.new_balls) = 1
    /\ changes.new_balls[1].over = 2
    /\ changes.new_balls[1].ball = 5
    /\ ~changes.over_completed
    /\ previous_over_info = [over |-> 2, ball |-> 5]

\* C16 as stated: a tick reports an over completed exactly when the batting
\* team's ball counter is 0, its over counter exceeds the recorded over
\* counter, and the recorded over counter is positive
C16_OverFromPositive ==
    [][LET data == current_data'
           row == Batting(data, current_innings)
       IN changes'.over_completed
            <=> /\ Shown(data, current_innings)
                /\ Get0(row.current_ball) = 0
                /\ Get0(row.current_over) > previous_over_info.over
                /\ previous_over_info.over > 0]_vars

\* C16 amended: a tick reports an over completed exactly when the batting
\* team's ball counter is 0 and its over counter exceeds the recorded over
\* counter, a recorded over counter of 0 included
C16_OverFromAny ==
    [][LET data == current_data'
           row == Batting(data, current_innings)
       IN changes'.over_completed
            <=> /\ Shown(data, current_innings)
                /\ Get0(row.current_ball) = 0
                /\ Get0(row.current_over) > previous_over_info.over]_vars

\* over 2 reported as completed on a tick showing (2,0)
C16_Witness ==
    /\ changes.over_completed
    /\ changes.completed_over_number = 2
    /\ previous_over_info = [over |-> 2, ball |-> 0]
    /\ current_innings = 1
    /\ current_data.teams[1].current_ball = 0

\* team 2 has faced a ball in the snapshot
Team2Progress2(data) ==
    /\ Len(data.teams) >= 2
    /\ \/ Get0(data.teams[2].current_over) > 0
       \/ Get0(data.teams[2].current_ball) > 0

\* C18: a tick reports the innings change exactly when it shows team 2 with
\* a positive over or ball counter while the tracked innings is 1; the
\* tracked innings is 2 after every tick that shows it, and the change is
\* reported at most once
C18_InningsChangeOnce ==
    [][/\ changes'.innings_changed
            <=> (Team2Progress2(current_data') /\ current_innings = 1)
       /\ Team2Progress2(current_data') => current_innings' = 2
       /\ emitted'.innings <= 1]_vars

\* the tick that showed team 2 at (0,5) for the first time
C18_Witness ==
    /\ changes.innings_changed
    /\ current_innings = 2
    /\ emitted.innings = 1
    /\ current_data.teams[2].current_over = 0
    /\ current_data.teams[2].current_ball = 5

\* C20: a tick reports a score change exactly when the team rows of the
\* snapshot differ from the recorded rows, in any field; after the tick the
\* recorded rows are the rows of the snapshot
C20_ScoreChangeOnDifference ==
    [][/\ changes'.score_changed
            <=> (~previous_score.set \/ current_data'.teams # previous_score.teams)
       /\ previous_score'.set
       /\ previous_score'.teams = current_data'.teams]_vars

\* a score change in the 2nd innings on a tick without a new ball: team 1's
\* wickets differ from the recorded row
C20_Witness ==
    /\ changes.score_changed
    /\ changes.new_balls = <<>>
    /\ ~changes.innings_changed
    /\ emitted.innings = 1
    /\ Len(current_data.teams) = 2
    /\ current_data.teams[1].wickets = 1
    /\ previous_score.teams = current_data.teams

----------------------------------------------------------------------------
(* The tracker polling a match as it is played *)

\* balls an innings can face
MaxBalls == 12

\* the snapshot of a scoreboard: both team rows, each with its balls faced
\* as over.ball
SnapshotOf(b) ==
    [teams |-> <<TeamRow(0, b.t1 \div BallsPerOver, b.t1 % BallsPerOver),
                 TeamRow(0, b.t2 \div BallsPerOver, b.t2 % BallsPerOver)>>,
     ball_by_ball |-> <<FourBall>>]

\* the scoreboard at the next tick: as it was, or one ball further (a ball
\* of the batting team, or the first ball of team 2 once team 1 has batted)
BoardMoves(b) ==
    {[b EXCEPT !.still = TRUE]}
    \cup {[b EXCEPT !.t1 = @ + 1, !.still = FALSE] : x \in
            {y \in {1} : b.inn = 1 /\ b.t1 < MaxBalls}}
    \cup {[b EXCEPT !.t2 = 1, !.inn = 2, !.still = FALSE] : x \in
            {y \in {1} : b.inn = 1 /\ b.t1 > 0}}
    \cup {[b EXCEPT !.t2 = @ + 1, !.still = FALSE] : x \in
            {y \in {1} : b.inn = 2 /\ b.t2 < MaxBalls}}

\* one iteration of the tracking loop while the match is played: at most
\* one ball since the last tick
PlayTick ==
    /\ \E b \in BoardMoves(board) :
         /\ board' = b
         /\ Detect(SnapshotOf(b), TRUE)
    /\ UNCHANGED lifeVars
    /\ UNCHANGED matcherVars

NextPlay == PlayTick

SpecPlay == InitDetect /\ [][NextPlay]_vars

\* C15: with at most one ball between ticks, once the scoreboard has been
\* polled again without a new ball the new balls returned in each innings
\* are as many as the balls the innings has faced
C15_NoBallLost ==
    board.still => emitted.balls = <<board.t1, board.t2>>

\* the over numbers 1..n
UpTo(n) == [k \in 1..n |-> k]

\* C17: the over completions returned in an innings are exactly one for
\* each over the batting team has completed, each on the tick that showed
\* (k,0) and with the number k; ticks that show the same (k,0) again add none
C17_OneCompletionPerOver ==
    /\ emitted.overs[1] = UpTo(board.t1 \div BallsPerOver)
    /\ emitted.overs[2] = UpTo(board.t2 \div BallsPerOver)
    /\ changes.over_completed =>
         /\ ~board.still
         /\ changes.completed_over_number = previous_over_info.over

\* team 1 polled again at (2,0): overs 1 and 2 were returned once each
C17_Witness ==
    /\ board.inn = 1
    /\ board.t1 = 2 * BallsPerOver
    /\ board.still
    /\ ~changes.over_completed
    /\ emitted.overs[1] = <<1, 2>>

\* C19: the tick that returns the innings change leaves the baseline at
\* (0,0), and the first over completion of the 2nd innings carries over
\* number 1 whatever the overs of the 1st innings
C19_Inn2OversFromOne ==
    /\ changes.innings_changed => previous_over_info = [over |-> 0, ball |-> 0]
    /\ emitted.overs[2] # <<>> => emitted.overs[2][1] = 1

\* team 2 reaching (1,0) after a 1st innings of two overs
C19_Witness ==
    /\ current_innings = 2
    /\ emitted.overs[1] = <<1, 2>>
    /\ changes.over_completed
    /\ changes.completed_over_number = 1
    /\ emitted.overs[2] = <<1>>
    /\ board.t2 = BallsPerOver

----------------------------------------------------------------------------
(* The ball-by-ball display and the card of a new ball *)

\* ball_text.lower(), for the letters the display shows
Lower(text) == [k \in 1..Len(text) |-> IF text[k] = "W" THEN "w" ELSE text[k]]

\* ball_data as extract_match_info builds it from the text of a ball-runs
\* element and from the words of its class attribute
BallEntry(text, class) ==
    [runs |-> text,
     is_four |-> class.four,
     is_six |-> class.six,
     is_wicket |-> class.wicket \/ Lower(text) = <<"w", "w">>]

\* texts of the last element of the display: the run values, a value the
\* mapping does not have, the wicket texts, an empty and an unreadable text
GlyphTexts ==
    {<<"0">>, <<"1">>, <<"2">>, <<"3">>, <<"4">>, <<"5">>, <<"6">>,
     <<"1", "0">>, <<"W">>, <<"w", "w">>, <<"W", "W">>, <<>>, <<"-">>}

\* the display of a polled page: nothing, or ending in one of the texts,
\* its class with or without the word wicket
PolledDisplays ==
    {<<>>} \cup
    {<<BallEntry(t, [four |-> t = <<"4">>, six |-> t = <<"6">>, wicket |-> w])>> :
       t \in GlyphTexts, w \in BOOLEAN}

\* the row of team 1 within its first two overs
CardTeams == {<<TeamRow(0, o, b)>> : o \in 0..1, b \in PolledBalls}

\* one iteration of the tracking loop on a page showing team 1 and a display
PollCard ==
    /\ \E teams \in CardTeams, balls \in PolledDisplays :
         Detect([teams |-> teams, ball_by_ball |-> balls], FALSE)
    /\ UNCHANGED board
    /\ UNCHANGED lifeVars
    /\ UNCHANGED matcherVars

NextCards == PollCard

SpecCards == InitDetect /\ [][NextCards]_vars

\* the card the fixed mapping gives a runs value, the wicket as -1
MappedCard(v) ==
    CASE v = 0 -> <<"1", "0">>
      [] v = 1 -> <<"A">>
      [] v = 2 -> <<"2">>
      [] v = 3 -> <<"3">>
      [] v = 4 -> <<"4">>
      [] v = 6 -> <<"6">>
      [] v = -1 -> <<"K">>
      [] OTHER -> <<"?">>

\* the runs text of an event is a wicket glyph
WicketGlyph(text) == Lower(text) \in {<<"w">>, <<"w", "w">>}

\* the card that goes with the runs value the event itself carries
CardOfRuns(ev) ==
    IF ev.card_runs.numeric THEN MappedCard(ev.card_runs.value)
    ELSE IF WicketGlyph(ev.runs) THEN <<"K">>
    ELSE <<"?">>

\* C21: the card of every new ball is the fixed mapping applied to the runs
\* value the same event carries (K for a wicket glyph, "?" for a value the
\* mapping does not have), whatever the glyph text and the wicket flag
C21_CardAgreesWithRuns ==
    \A k \in 1..Len(changes.new_balls) :
        changes.new_balls[k].card = CardOfRuns(changes.new_balls[k])

----------------------------------------------------------------------------
(* check_match_state and extract_match_info *)

\* overs of an innings, "team_overs == 5.0"
FormatOvers == 5

\* wickets of an innings, "team_wickets >= 10"
AllOut == 10

max_consecutive_errors == 20

max_waiting_iterations == 300

\* a round identifier read from the page
Rid(text) == [read |-> TRUE, text |-> text]

\* "if self.previous_round_id": neither None nor the empty text
Truthy(rid) == rid.read /\ rid.text # <<>>

\* a team row whose score text "runs-wickets (over.ball)" parsed
Scored(runs, wickets, over, ball) ==
    [runs |-> runs, wickets |-> wickets, current_over |-> over,
     current_ball |-> ball]

\* a p.team-1 element with its name and score spans
Spans(row) == [spans |-> TRUE, row |-> row]

\* a p.team-1 element with fewer than two spans: nothing is read from it
Spanless == [spans |-> FALSE, row |-> BlankRow]

\* what check_match_state reads from a row: runs and wickets default to 0,
\* the overs stay None when nothing parsed
StateRow(r) == IF r.spans THEN r.row ELSE BlankRow

\* team_overs is not None and team_overs == 5.0
AtCap(row) ==
    /\ row.current_over # Absent
    /\ row.current_over = FormatOvers
    /\ row.current_ball = 0

\* team_overs is not None and team_overs > 0
Progress(row) ==
    /\ row.current_over # Absent
    /\ (row.current_over > 0 \/ row.current_ball > 0)

\* the rule without the chase of the target
MatchOverNoChase(team1, team2) ==
    \/ /\ Progress(team2)
       /\ AtCap(team2) \/ Get0(team2.wickets) >= AllOut
    \/ AtCap(team1) /\ AtCap(team2)

\* the rule that takes the end of either innings for the end of the match
MatchOverEitherInnings(team1, team2) ==
    \/ AtCap(team1) \/ Get0(team1.wickets) >= AllOut
    \/ /\ Progress(team2)
       /\ \/ AtCap(team2)
          \/ Get0(team2.wickets) >= AllOut
          \/ Get0(team2.runs) > Get0(team1.runs)
    \/ AtCap(team1) /\ AtCap(team2)

\* the rule that takes level scores for the target chased
MatchOverLevel(team1, team2) ==
    \/ /\ Progress(team2)
       /\ \/ AtCap(team2)
          \/ Get0(team2.wickets) >= AllOut
          \/ (Get0(team2.runs) >= Get0(team1.runs) /\ Progress(team2))
    \/ AtCap(team1) /\ AtCap(team2)

\* "second_innings_active and second_innings_ended", or both teams at 5.0
MatchOver(team1, team2) ==
    \/ /\ Progress(team2)
       /\ \/ AtCap(team2)
          \/ Get0(team2.wickets) >= AllOut
          \/ (Get0(team2.runs) > Get0(team1.runs) /\ Progress(team2))
    \/ AtCap(team1) /\ AtCap(team2)

\* the test that takes a scorecard without rows for a running match
ShowsTeamsAlways(rows) == TRUE

\* "if team_rows:"
ShowsTeams(rows) == Len(rows) > 0

\* check_match_state() on the page pg: the state returned and match_started
\* as the call leaves it
check_match_state(pg, started) ==
    IF pg.state_fault THEN [state |-> "unknown", started |-> started]
    ELSE IF ~pg.card
    THEN [state |-> IF started THEN "ended" ELSE "waiting", started |-> started]
    ELSE IF ~ShowsTeams(pg.rows) THEN [state |-> "waiting", started |-> started]
    ELSE IF Len(pg.rows) >= 2
            /\ MatchOver(StateRow(pg.rows[1]), StateRow(pg.rows[2]))
    THEN [state |-> "ended", started |-> started]
    ELSE [state |-> "active", started |-> TRUE]

\* match_info['teams']: the rows that have their two spans
RECURSIVE TeamsOf(_)
TeamsOf(rows) ==
    IF rows = <<>> THEN <<>>
    ELSE (IF Head(rows).spans THEN <<Head(rows).row>> ELSE <<>>)
         \o TeamsOf(Tail(rows))

\* match_info as it is created, before anything is extracted
NoInfo == [teams |-> <<>>, ball_by_ball |-> <<>>, result |-> FALSE]

\* the match-state fields extract_match_info reads and writes
LifeFields ==
    [started |-> match_started, ended |-> match_ended,
     waits |-> waiting_iterations, errors |-> consecutive_errors,
     prev_rid |-> previous_round_id]

\* "if self.previous_round_id and self.current_round_id != self.previous_round_id"
RoundChanged(prev_rid, rid) == Truthy(prev_rid) /\ rid # prev_rid

\* extract_match_info() on the page pg and the fields st: the fields as the
\* call leaves them, the match_info returned, the state the check returned
\* (none when it was not called), whether an exception was caught, and why
\* match_ended was set
extract_match_info(pg, st) ==
    LET cs == check_match_state(pg, st.started)
        waits1 == st.waits + 1
        raised == pg.parse_fault \/ ~pg.card
    IN IF RoundChanged(st.prev_rid, pg.rid)
       THEN [started |-> st.started, ended |-> TRUE, waits |-> st.waits,
             errors |-> st.errors, info |-> NoInfo, state |-> "none",
             raised |-> FALSE, by |-> "round"]
       ELSE IF cs.state = "waiting"
       THEN IF ~st.started
            THEN [started |-> st.started,
                  ended |-> st.ended \/ waits1 >= max_waiting_iterations,
                  waits |-> waits1, errors |-> st.errors, info |-> NoInfo,
                  state |-> cs.state, raised |-> FALSE, by |-> "patience"]
            ELSE [started |-> st.started, ended |-> st.ended,
                  waits |-> st.waits, errors |-> st.errors, info |-> NoInfo,
                  state |-> cs.state, raised |-> FALSE, by |-> "none"]
       ELSE [started |-> cs.started,
             ended |-> st.ended \/ cs.state = "ended",
             waits |-> 0,
             errors |-> IF raised THEN 1 ELSE 0,
             info |-> IF raised THEN NoInfo
                      ELSE [teams |-> TeamsOf(pg.rows),
                            ball_by_ball |-> pg.balls, result |-> pg.result],
             state |-> cs.state, raised |-> raised, by |-> "state"]

----------------------------------------------------------------------------
(* The two tracking loops *)

\* overs of an innings as continuous_ball_by_ball_tracking has them
TenOvers == 10

\* the page shows no match: no scorecard, or a scorecard without team rows
IdlePage(pg) == ~pg.state_fault /\ (~pg.card \/ pg.rows = <<>>)

\* the run of idle iterations with one more iteration, counted when count
\* is set
Idled(pg, count) ==
    IF count /\ IdlePage(pg)
    THEN (IF gone.idle < max_waiting_iterations THEN gone.idle + 1 ELSE gone.idle)
    ELSE 0

\* the run of iterations of a started match in which extract_match_info
\* caught an exception, with one more iteration
Failed(r) ==
    IF r.raised /\ r.started
    THEN (IF gone.failed < max_consecutive_errors THEN gone.failed + 1
          ELSE gone.failed)
    ELSE 0

\* the fields written by extract_match_info and detect_changes in one
\* iteration of a tracking loop on the page pg, r being what
\* extract_match_info(pg, ...) returned
Iterated(pg, r) ==
    /\ page' = pg
    /\ current_round_id' = pg.rid
    /\ match_state' = r.state
    /\ match_started' = r.started
    /\ waiting_iterations' = r.waits
    /\ consecutive_errors' = r.errors
    /\ Detect([teams |-> r.info.teams, ball_by_ball |-> r.info.ball_by_ball],
              FALSE)

\* navigate_to_5five_cricket reads the initial round identifier
Navigated(rid) ==
    /\ current_round_id' = rid
    /\ previous_round_id' = rid

\* continuous_match_tracker up to its waiting loop: login, navigation, and
\* the resets at the top of the outer loop
StartTracker(rids) ==
    /\ loop = "new"
    /\ \E rid \in rids : Navigated(rid)
    /\ match_started' = FALSE
    /\ match_ended' = FALSE
    /\ waiting_iterations' = 0
    /\ loop' = "wait"
    /\ UNCHANGED <<consecutive_errors, last_analyzed_over, page, match_state,
                   gone>>
    /\ UNCHANGED trackerVars
    /\ UNCHANGED matcherVars

\* the reset of the tracking data that leaves the tracked innings as it is
MatchResetKeepInnings(rid) ==
    [balls |-> <<>>, score |-> NoScore, over_info |-> [over |-> 0, ball |-> 0],
     last_over |-> 0, errors |-> 0, innings |-> current_innings,
     prev_rid |-> rid]

\* "Reset tracking data" when a match starts, rid being the round
\* identifier just read
MatchReset(rid) ==
    [balls |-> <<>>, score |-> NoScore, over_info |-> [over |-> 0, ball |-> 0],
     last_over |-> 0, errors |-> 0, innings |-> 1, prev_rid |-> rid]

\* no event returned yet
NoEvents == [balls |-> <<0, 0>>, innings |-> 0, overs |-> << <<>>, <<>> >>]

\* one iteration of the waiting loop of continuous_match_tracker, and when
\* the match is active the start of its tracking; the events are those of
\* the match tracked
WaitCheck(pages, count) ==
    /\ loop = "wait"
    /\ \E pg \in pages :
         LET cs == check_match_state(pg, match_started)
             new == MatchReset(pg.rid)
         IN /\ page' = pg
            /\ match_state' = cs.state
            /\ match_started' = cs.started
            /\ IF cs.state = "active"
               THEN /\ loop' = "track"
                    /\ current_round_id' = pg.rid
                    /\ previous_balls' = new.balls
                    /\ previous_score' = new.score
                    /\ previous_over_info' = new.over_info
                    /\ last_analyzed_over' = new.last_over
                    /\ consecutive_errors' = new.errors
                    /\ current_innings' = new.innings
                    /\ previous_round_id' = new.prev_rid
                    /\ emitted' = NoEvents
                    /\ gone' = [gone EXCEPT !.idle = 0, !.failed = 0]
               ELSE /\ gone' = [gone EXCEPT !.idle = Idled(pg, count)]
                    /\ UNCHANGED <<loop, current_round_id, previous_balls,
                                   previous_score, previous_over_info,
                                   last_analyzed_over, consecutive_errors,
                                   current_innings, previous_round_id,
                                   emitted>>
    /\ UNCHANGED <<match_ended, waiting_iterations, current_data, changes,
                   board>>
    /\ UNCHANGED matcherVars

\* "if team1_over == 5 and team2_over == 5" at the end of an iteration
BothFive(teams) ==
    /\ Len(teams) >= 2
    /\ Get0(teams[1].current_over) = FormatOvers
    /\ Get0(teams[2].current_over) = FormatOvers

\* an iteration of the tracking loop that runs whether or not the match has
\* ended
TrackTickAfterEnd(pages) ==
    /\ loop = "track"
    /\ \E pg \in pages :
         LET r == extract_match_info(pg, LifeFields)
             five == BothFive(r.info.teams)
         IN /\ Iterated(pg, r)
            /\ match_ended' = (r.ended \/ five)
            /\ gone' = [idle |-> 0, failed |-> Failed(r),
                        ended_by |-> IF r.ended THEN r.by
                                     ELSE IF five THEN "overs"
                                     ELSE gone.ended_by]
    /\ UNCHANGED <<previous_round_id, last_analyzed_over, loop, board>>
    /\ UNCHANGED matcherVars

\* one iteration of "while not self.match_ended" in continuous_match_tracker;
\* extract_match_info and extract_market_data catch their own exceptions
\* and nothing else in the body raises on a match_info they return
TrackTick(pages) ==
    /\ loop = "track"
    /\ ~match_ended
    /\ \E pg \in pages :
         LET r == extract_match_info(pg, LifeFields)
             five == BothFive(r.info.teams)
         IN /\ Iterated(pg, r)
            /\ match_ended' = (r.ended \/ five)
            /\ gone' = [idle |-> 0, failed |-> Failed(r),
                        ended_by |-> IF r.ended THEN r.by
                                     ELSE IF five THEN "overs"
                                     ELSE gone.ended_by]
    /\ UNCHANGED <<previous_round_id, last_analyzed_over, loop, board>>
    /\ UNCHANGED matcherVars

\* the match is over: the summary, then the top of the outer loop again
EndMatch ==
    /\ loop = "track"
    /\ match_ended
    /\ match_started' = FALSE
    /\ match_ended' = FALSE
    /\ waiting_iterations' = 0
    /\ loop' = "wait"
    /\ gone' = [gone EXCEPT !.idle = 0, !.failed = 0]
    /\ UNCHANGED <<consecutive_errors, previous_round_id, current_round_id,
                   last_analyzed_over, page, match_state>>
    /\ UNCHANGED trackerVars
    /\ UNCHANGED matcherVars

\* continuous_ball_by_ball_tracking up to its loop: login, navigation, and
\* a match returned by find_first_virtual_cricket_match
StartBallLoop(rids) ==
    /\ loop = "new"
    /\ \E rid \in rids : Navigated(rid)
    /\ loop' = "ball"
    /\ UNCHANGED <<match_started, match_ended, waiting_iterations,
                   consecutive_errors, last_analyzed_over, page, match_state,
                   gone>>
    /\ UNCHANGED trackerVars
    /\ UNCHANGED matcherVars

\* the end conditions at the end of an iteration of the ball-by-ball loop
BallLoopEnd(info) ==
    /\ Len(info.teams) >= 2
    /\ LET team1_over == Get0(info.teams[1].current_over)
           team2_over == Get0(info.teams[2].current_over)
       IN \/ team1_over = TenOvers /\ team2_over = TenOvers
          \/ info.result
          \/ /\ team2_over > 0
             /\ team1_over = TenOvers
             /\ team2_over < TenOvers
             /\ info.teams[1].runs # Absent
             /\ info.teams[2].runs # Absent
             /\ info.teams[2].runs > info.teams[1].runs

\* one iteration of "while True" in continuous_ball_by_ball_tracking that
\* does not break
BallTick(pages, count) ==
    /\ loop = "ball"
    /\ ~match_ended
    /\ ~(consecutive_errors >= max_consecutive_errors /\ match_started)
    /\ \E pg \in pages :
         LET errors0 == IF consecutive_errors >= max_consecutive_errors
                        THEN 0 ELSE consecutive_errors
             r == extract_match_info(pg, [LifeFields EXCEPT !.errors = errors0])
             over == BallLoopEnd(r.info)
         IN /\ Iterated(pg, r)
            /\ match_ended' = (r.ended \/ over)
            /\ gone' = [idle |-> Idled(pg, count), failed |-> Failed(r),
                        ended_by |-> IF r.ended THEN r.by
                                     ELSE IF over THEN "result"
                                     ELSE gone.ended_by]
    /\ UNCHANGED <<previous_round_id, last_analyzed_over, loop, board>>
    /\ UNCHANGED matcherVars

\* the iteration that breaks: the match has ended, or too many consecutive
\* errors after it started
BallStop ==
    /\ loop = "ball"
    /\ match_ended \/ (consecutive_errors >= max_consecutive_errors
                       /\ match_started)
    /\ match_ended' = TRUE
    /\ loop' = "stopped"
    /\ gone' = IF match_ended THEN gone ELSE [gone EXCEPT !.ended_by = "errors"]
    /\ UNCHANGED <<match_started, waiting_iterations, consecutive_errors,
                   previous_round_id, current_round_id, last_analyzed_over,
                   page, match_state>>
    /\ UNCHANGED trackerVars
    /\ UNCHANGED matcherVars

----------------------------------------------------------------------------
(* The tracking loops on pages that show a scorecard or none *)

Rid7 == Rid(<<"7">>)

Rid8 == Rid(<<"8">>)

\* a page with a scorecard, read without an exception
PageOf(rid, rows) ==
    [rid |-> rid, card |-> TRUE, rows |-> rows, balls |-> <<FourBall>>,
     result |-> FALSE, state_fault |-> FALSE, parse_fault |-> FALSE]

\* a page without a scorecard
NoCard(rid) == [NoPage EXCEPT !.rid = rid]

\* first rows: unparsed, without spans, team 1 batting, at 5.0, all out
StateRows1 ==
    {Spans(BlankRow), Spanless, Spans(Scored(1, 0, 0, 1)),
     Spans(Scored(1, 0, FormatOvers, 0)), Spans(Scored(1, AllOut, 1, 0))}

\* second rows: unparsed, team 2 yet to bat, batting behind, level, ahead,
\* at 5.0, all out
StateRows2 ==
    {Spans(BlankRow), Spans(Scored(0, 0, 0, 0)), Spans(Scored(0, 0, 0, 1)),
     Spans(Scored(1, 0, 0, 1)), Spans(Scored(2, 0, 0, 1)),
     Spans(Scored(0, 0, FormatOvers, 0)), Spans(Scored(1, 0, FormatOvers, 0)),
     Spans(Scored(0, AllOut, 0, 1)), Spans(Scored(1, AllOut, 0, 1))}

StatePages ==
    {NoCard(Rid7), PageOf(Rid7, <<>>)}
    \cup {PageOf(Rid7, <<a>>) : a \in StateRows1}
    \cup {PageOf(Rid7, <<a, b>>) : a \in StateRows1, b \in StateRows2}

NextState ==
    \/ StartTracker({Rid7})
    \/ WaitCheck(StatePages, FALSE)
    \/ TrackTick(StatePages)
    \/ EndMatch
    \/ StartBallLoop({Rid7})
    \/ BallTick(StatePages, FALSE)
    \/ BallStop

SpecState == InitDetect /\ [][NextState]_vars

\* a step that is an iteration of a tracking loop
TickStep == loop \in {"track", "ball"} /\ loop' = loop

\* C22 as stated: match_started becomes true only on a page whose scorecard
\* has the rows of both teams
C22_StartsOnBothRows ==
    [][(~match_started /\ match_started') => Len(page'.rows) >= 2]_vars

\* C22: match_started becomes true only on a page that has a scorecard with
\* at least one team row
C22_StartsOnSomeRow ==
    [][(~match_started /\ match_started')
       => (page'.card /\ Len(page'.rows) >= 1)]_vars

\* a match started on a scorecard with a single row
C22_Witness ==
    /\ match_started
    /\ match_state = "active"
    /\ Len(page.rows) = 1

\* the page was read by the match-state check and shows both rows
ReadBoth(pg) == pg.card /\ ~pg.state_fault /\ Len(pg.rows) >= 2

\* the innings tracked has reached its end on the page pg
InningsOver(pg, innings) ==
    LET bat == StateRow(pg.rows[innings])
        team1 == StateRow(pg.rows[1])
        team2 == StateRow(pg.rows[2])
    IN \/ Get0(bat.current_over) >= FormatOvers
       \/ Get0(bat.wickets) >= AllOut
       \/ innings = 2 /\ Get0(team2.runs) > Get0(team1.runs)

\* C23 as stated: while the match is active, an iteration on a page where
\* the batting team of the tracked innings is at the overs cap or all out,
\* or in innings 2 team 2 has more runs than team 1, sets match_ended
C23_EndsAtCapEitherInnings ==
    [][(TickStep /\ match_started /\ ~match_ended /\ ReadBoth(page')
        /\ InningsOver(page', current_innings)) => match_ended']_vars

\* team 2 has over or ball progress on the page pg and is at 5.0, all out,
\* or ahead of team 1
Innings2Over(pg) ==
    LET team1 == StateRow(pg.rows[1])
        team2 == StateRow(pg.rows[2])
    IN /\ team2.current_over # Absent
       /\ (team2.current_over > 0 \/ team2.current_ball > 0)
       /\ \/ (team2.current_over = FormatOvers /\ team2.current_ball = 0)
          \/ Get0(team2.wickets) >= AllOut
          \/ Get0(team2.runs) > Get0(team1.runs)

\* C23: while the match is active, an iteration on a page where team 2 has
\* progress and is at 5.0, all out, or ahead of team 1, sets match_ended
C23_EndsWhenInnings2Ends ==
    [][(TickStep /\ match_started /\ ~match_ended /\ ReadBoth(page')
        /\ Innings2Over(page')) => match_ended']_vars

\* a match ended on the page that shows team 2 ahead after one ball
C23_Witness ==
    /\ match_ended
    /\ match_state = "ended"
    /\ ReadBoth(page)
    /\ StateRow(page.rows[2]) = Scored(2, 0, 0, 1)
    /\ StateRow(page.rows[1]).runs = 1

\* C24: check_match_state returns "ended" on a page with a scorecard only
\* when the second row shows over or ball progress
C24_NoEndWithoutInnings2 ==
    (match_state = "ended" /\ page.card)
    => /\ Len(page.rows) >= 2
       /\ LET team2 == StateRow(page.rows[2])
          IN /\ team2.current_over # Absent
             /\ (team2.current_over > 0 \/ team2.current_ball > 0)

\* team 1 at 5.0 and team 2 yet to bat: the check returned "active"
C24_Witness ==
    /\ match_state = "active"
    /\ page.card
    /\ Len(page.rows) = 2
    /\ StateRow(page.rows[1]) = Scored(1, 0, FormatOvers, 0)
    /\ StateRow(page.rows[2]) = Scored(0, 0, 0, 0)

----------------------------------------------------------------------------
(* The tracking loops on pages that change round or fail to read *)

\* round identifiers read by extract_round_id: none, and two rounds
LifeRids == {NoRid, Rid7, Rid8}

\* the rows of a scorecard: none, team 1 alone, team 2 yet to bat, team 2
\* batting, team 1 one over on, team 2 at 5.0
LifeRows ==
    {<<>>,
     <<Spans(Scored(1, 0, 0, 1))>>,
     <<Spans(Scored(1, 0, 0, 1)), Spans(Scored(0, 0, 0, 0))>>,
     <<Spans(Scored(1, 0, 0, 1)), Spans(Scored(0, 0, 0, 1))>>,
     <<Spans(Scored(1, 0, 1, 0)), Spans(Scored(0, 0, 0, 1))>>,
     <<Spans(Scored(1, 0, 0, 1)), Spans(Scored(0, 0, FormatOvers, 0))>>}

\* pages with a scorecard and team rows read without an exception
CardPages == {PageOf(rid, rows) : rid \in LifeRids, rows \in LifeRows \ {<<>>}}

\* pages on which extract_match_info raised after check_match_state
\* returned
FaultPages ==
    {[PageOf(rid, rows) EXCEPT !.parse_fault = TRUE] :
       rid \in LifeRids,
       rows \in {<<Spans(Scored(1, 0, 0, 1))>>,
                 <<Spans(Scored(1, 0, 0, 1)), Spans(Scored(0, 0, 0, 1))>>}}

\* pages with a result line, or with an exception in check_match_state
OddPages ==
    UNION {{[PageOf(rid, <<Spans(Scored(1, 0, 0, 1)),
                           Spans(Scored(0, 0, 0, 0))>>) EXCEPT !.result = TRUE],
            [PageOf(rid, <<Spans(Scored(1, 0, 0, 1))>>)
               EXCEPT !.state_fault = TRUE],
            PageOf(rid, <<>>),
            NoCard(rid),
            [NoCard(rid) EXCEPT !.state_fault = TRUE]} : rid \in LifeRids}

LifePages == CardPages \cup FaultPages \cup OddPages

\* iterations in a row on which the ball-by-ball loop waits for a match
MaxIdle == 3

\* the ball-by-ball loop is followed while it has waited MaxIdle iterations
\* or fewer
NextLife ==
    \/ StartTracker(LifeRids)
    \/ WaitCheck(LifePages, FALSE)
    \/ TrackTick(LifePages)
    \/ EndMatch
    \/ StartBallLoop(LifeRids)
    \/ waiting_iterations < MaxIdle /\ BallTick(LifePages, FALSE)
    \/ BallStop

SpecLife == InitDetect /\ [][NextLife]_vars

\* C25: an iteration on a page that carries a round identifier other than
\* the one of the match tracked sets match_ended, and no new ball, over
\* completion or innings change comes out of it
C25_EndsOnOtherRound ==
    [][(TickStep /\ ~match_ended /\ page'.rid.read
        /\ page'.rid # previous_round_id)
       => /\ match_ended'
          /\ changes'.new_balls = <<>>
          /\ ~changes'.over_completed
          /\ ~changes'.innings_changed]_vars

\* a page with something missing or unreadable that shows neither another
\* round nor the rows of both teams
NoisePage(pg) ==
    /\ ~pg.rid.read \/ pg.rid = previous_round_id
    /\ Len(pg.rows) < 2
    /\ ~pg.rid.read \/ ~pg.card \/ pg.state_fault \/ pg.parse_fault

ParseFailed(pg) ==
    /\ pg.rid = previous_round_id
    /\ pg.card
    /\ ~pg.state_fault
    /\ pg.parse_fault
    /\ Len(pg.rows) >= 1
    /\ ~(Len(pg.rows) >= 2 /\ Innings2Over(pg))

\* C28: an iteration of a started match whose page fails to parse leaves
\* the phase, the tracked innings, the over/ball baseline and the recorded
\* score as they were and returns no event
C28_FailedTickKeepsState ==
    [][(TickStep /\ match_started /\ ~match_ended /\ ParseFailed(page'))
       => /\ UNCHANGED <<match_started, match_ended, current_innings,
                         previous_over_info, previous_score>>
          /\ changes' = NoChanges]_vars

\* C29: once max_consecutive_errors iterations of a started match in a row
\* have failed to parse, the error counter is at the threshold or the match
\* has ended
C29_ErrorsEndMatch ==
    (match_started /\ gone.failed >= max_consecutive_errors)
    => (consecutive_errors >= max_consecutive_errors \/ match_ended)

\* the per-match fields as they are when the tracking of a match starts
StartValues ==
    /\ match_started
    /\ ~match_ended
    /\ waiting_iterations = 0
    /\ consecutive_errors = 0
    /\ current_innings = 1
    /\ previous_over_info = [over |-> 0, ball |-> 0]
    /\ previous_score = NoScore
    /\ previous_balls = <<>>
    /\ last_analyzed_over = 0
    /\ previous_round_id = current_round_id
    /\ previous_round_id = page.rid

\* C30: in continuous_match_tracker, when the tracking of a match begins
\* every per-match field holds its start-of-match value
C30_FreshAtMatchStart ==
    [][(loop = "wait" /\ loop' = "track") => StartValues']_vars

\* the tracking of a match begins after the match before it was ended by a
\* change of round
C30_Witness ==
    /\ loop = "track"
    /\ StartValues
    /\ gone.ended_by = "round"
    /\ previous_round_id = Rid8

----------------------------------------------------------------------------
(* The tracking loops on pages that show no match *)

\* pages without a match: no scorecard, a scorecard without team rows, in
\* the round read at the start or in another, and a page on which
\* check_match_state raised
IdlePages ==
    {NoCard(Rid7), PageOf(Rid7, <<>>), NoCard(Rid8),
     [NoCard(Rid7) EXCEPT !.state_fault = TRUE]}

\* the iterations that wait for a match are counted
NextIdle ==
    \/ StartTracker({Rid7})
    \/ WaitCheck(IdlePages, TRUE)
    \/ StartBallLoop({Rid7})
    \/ BallTick(IdlePages, TRUE)
    \/ BallStop

SpecIdle == InitDetect /\ [][NextIdle]_vars

\* C26: in both entry points, once max_waiting_iterations iterations in a
\* row have seen a page without a match, the tracker has given up:
\* match_ended is set and match_started is still false
C26_GivesUpAfterPatience ==
    (loop \in {"wait", "ball"} /\ gone.idle >= max_waiting_iterations)
    => (match_ended /\ ~match_started)

----------------------------------------------------------------------------
(* The phases of a match *)

\* the step on which continuous_match_tracker leaves a match for the next
NextMatchStep == loop = "track" /\ loop' = "wait"

\* C31: once match_ended is set no page is polled and no event is returned
\* for the match, and until the reset for the next match match_started and
\* match_ended, once true, stay true
C31_EndedIsTerminal ==
    [][/\ match_ended => UNCHANGED <<page, trackerVars>>
       /\ (match_ended /\ ~match_ended') => NextMatchStep
       /\ (match_started /\ ~match_started') => NextMatchStep]_vars

\* a started match that was ended by the match-state check and whose
\* tracking loop has stopped polling
C31_Witness ==
    /\ match_started
    /\ match_ended
    /\ loop \in {"track", "stopped"}
    /\ gone.ended_by = "state"

----------------------------------------------------------------------------
(* The tracker polling a match whose counters are at times misread *)

\* balls an innings faces while its counters are misread
MaxShown == 6

\* new balls returned after which the counters are read as shown
MaxReported == 7

\* the row of a team with t balls faced
RowAt(t) == TeamRow(0, t \div BallsPerOver, t % BallsPerOver)

\* what extract_match_info may return for a row: its score text not
\* parsed (no key set, read as 0.0 by detect_changes), or the counter of
\* the ball before
Misread(row) ==
    {BlankRow} \cup {RowAt(t) : t \in {u \in {Faced(row) - 1} : u >= 0}}

\* the snapshots polled of a scoreboard: as it is, or with the row of the
\* team batting misread
Shows(b) ==
    {SnapshotOf(b)}
    \cup {[SnapshotOf(b) EXCEPT !.teams[b.inn] = g] :
            g \in Misread(SnapshotOf(b).teams[b.inn])}

\* the new balls returned so far
Reported == emitted.balls[1] + emitted.balls[2]

\* one iteration of the tracking loop while the match is played
GlitchTick ==
    /\ \E b \in BoardMoves(board) :
         /\ b.t1 <= MaxShown
         /\ b.t2 <= MaxShown
         /\ \E s \in Shows(b) :
              /\ s # SnapshotOf(b) => Reported < MaxReported
              /\ board' = b
              /\ Detect(s, TRUE)
    /\ UNCHANGED lifeVars
    /\ UNCHANGED matcherVars

NextGlitch == GlitchTick

SpecGlitch == InitDetect /\ [][NextGlitch]_vars

\* C32 as stated: the new balls returned in an innings are never more than
\* the balls the innings has faced, whatever counters were misread between
C32_NoBallTwice ==
    /\ emitted.balls[1] <= board.t1
    /\ emitted.balls[2] <= board.t2

\* C32 amended: a tick returns a new ball only when the batting team's row
\* shows more balls than the total recorded at the tick before, the ball
\* carries the counters of that row, and the total recorded after the tick
\* is the one the row shows, lower than before or not, or 0 on the tick
\* that changes the innings
C32_BallAboveLastTotal ==
    [][LET data == current_data'
           shown == Shown(data, current_innings)
           row == Batting(data, current_innings)
       IN /\ changes'.new_balls # <<>> =>
               /\ shown
               /\ Faced(row) > Recorded
               /\ changes'.new_balls[1].over = Get0(row.current_over)
               /\ changes'.new_balls[1].ball = Get0(row.current_ball)
          /\ shown =>
               previous_over_info' =
                 IF changes'.innings_changed THEN [over |-> 0, ball |-> 0]
                 ELSE [over |-> Get0(row.current_over),
                       ball |-> Get0(row.current_ball)]]_vars

\* the ball of a counter shown again after a misread counter is returned a
\* second time
C32_Witness ==
    /\ board.inn = 1
    /\ changes.new_balls # <<>>
    /\ emitted.balls[1] > board.t1
    /\ Recorded = board.t1

\* the numbers of a sequence grow strictly
Increasing(seq) == \A j \in 1..Len(seq), k \in 1..Len(seq) : j < k => seq[j] < seq[k]

\* C33 as stated: the over numbers returned as completed in an innings are
\* strictly increasing, whatever counters were misread between
C33_OversIncrease ==
    /\ Increasing(emitted.overs[1])
    /\ Increasing(emitted.overs[2])

\* C33 amended: a tick returns an over as completed only when the batting
\* team's row shows ball 0 of an over whose number, the one returned, is
\* greater than the over counter recorded at the tick before; a number
\* already returned in the innings comes again only after the recorded
\* over counter fell below it
C33_OverAboveLastCounter ==
    [][LET data == current_data'
           row == Batting(data, current_innings)
           done == emitted.overs[current_innings]
       IN changes'.over_completed =>
            /\ Shown(data, current_innings)
            /\ Get0(row.current_ball) = 0
            /\ changes'.completed_over_number = Get0(row.current_over)
            /\ changes'.completed_over_number > previous_over_info.over
            /\ emitted'.overs[current_innings] =
                 Append(done, changes'.completed_over_number)
            /\ \A j \in 1..Len(done) :
                 done[j] >= changes'.completed_over_number
                   => previous_over_info.over < done[j]]_vars

\* over 1 of the 1st innings returned as completed twice
C33_Witness ==
    /\ changes.over_completed
    /\ emitted.overs[1] = <<1, 1>>
    /\ board.t1 = BallsPerOver

----------------------------------------------------------------------------
(* The same snapshot twice, and the snapshot without rows *)

\* a tick on the snapshot of the tick before
SameAgain == previous_score.set /\ current_data' = current_data

C35_NoRowsNoEvent ==
    [][current_data'.teams = <<>> => changes' = NoChanges]_vars

----------------------------------------------------------------------------
(* The round identifier that could not be read *)

\* C36: an iteration ends the match as a change of round only on a page
\* whose round identifier was read and differs from the one of the match
\* tracked
C36_RoundEndNeedsOtherId ==
    [][(TickStep /\ ~match_ended /\ match_ended' /\ gone'.ended_by = "round")
       => (page'.rid.read /\ page'.rid # previous_round_id)]_vars

----------------------------------------------------------------------------
(* The innings tracked *)

\* C37: the innings tracked is 1 or 2; it changes only from 1 to 2, on an
\* iteration whose snapshot shows team 2 with a ball faced, or back to 1
\* when the tracker starts on a new match; a ball reported while the 2nd
\* innings is tracked carries the counter of team 2
C37_InningsForward ==
    [][LET teams == current_data'.teams IN
       /\ current_innings' \in {1, 2}
       /\ current_innings' # current_innings =>
            \/ /\ current_innings = 1
               /\ current_innings' = 2
               /\ TickStep
               /\ changes'.innings_changed
               /\ Len(teams) >= 2
               /\ Faced(teams[2]) > 0
            \/ /\ current_innings' = 1
               /\ loop = "wait"
               /\ loop' = "track"
       /\ (TickStep /\ current_innings = 2 /\ changes'.new_balls # <<>>) =>
            /\ Len(teams) >= 2
            /\ changes'.new_balls[1].over = Get0(teams[2].current_over)
            /\ changes'.new_balls[1].ball = Get0(teams[2].current_ball)]_vars

\* the tracker goes on in the 2nd innings and has reported a ball of team 2
\* while team 1 shows another counter
C37_Witness ==
    /\ loop = "track"
    /\ current_innings = 2
    /\ ~changes.innings_changed
    /\ changes.new_balls # <<>>
    /\ Len(current_data.teams) = 2
    /\ Faced(current_data.teams[1]) # Faced(current_data.teams[2])
    /\ previous_over_info.ball = Get0(current_data.teams[2].current_ball)

----------------------------------------------------------------------------
(* Level scores in the 2nd innings *)

\* the page shows both teams with the same runs, team 2 batting
Level(pg) ==
    /\ pg.card
    /\ Len(pg.rows) >= 2
    /\ Progress(StateRow(pg.rows[2]))
    /\ Get0(StateRow(pg.rows[2]).runs) = Get0(StateRow(pg.rows[1]).runs)

\* C38: on a page that shows level scores with team 2 batting,
\* check_match_state returns "ended" only when team 2 is at 5.0 overs or
\* has lost 10 wickets
C38_LevelIsNoChase ==
    (Level(page) /\ match_state = "ended")
    => LET team2 == StateRow(page.rows[2])
       IN AtCap(team2) \/ Get0(team2.wickets) >= AllOut

\* both teams on 1 run, team 2 one ball into its innings: the check
\* returned "active" and the match goes on
C38_Witness ==
    /\ Level(page)
    /\ StateRow(page.rows[1]) = Scored(1, 0, 0, 1)
    /\ StateRow(page.rows[2]) = Scored(1, 0, 0, 1)
    /\ match_state = "active"
    /\ match_started
    /\ ~match_ended
    /\ loop \in {"track", "ball"}

----------------------------------------------------------------------------
(* analyze_patterns on files whose rows are out of play order *)

MaxFiles == 2

\* the rows of a match as a file holds them when it was written backwards:
\* the last ball first, the labels following the file
Backwards(rows, base) ==
    [k \in 1..Len(rows) |->
       [rows[Len(rows) + 1 - k] EXCEPT !.idx = base + k - 1]]

\* two overs in innings 1 and one in innings 2; one over in innings 1 and a
\* single card in innings 2
OrderShapes ==
    {[c1 |-> OverA \o OverB, c2 |-> OverA],
     [c1 |-> OverA, c2 |-> <<C4>>]}

\* a match written in play order with innings 2 stamped later, written
\* backwards under one stamp, or written in play order with innings 2
\* stamped before innings 1
RowOrders == {"play", "backwards", "stamps"}

OrderMatches ==
    {[order |-> o, c1 |-> sh.c1, c2 |-> sh.c2] :
        o \in RowOrders, sh \in OrderShapes}

RECURSIVE OrderFile(_, _, _)
\* the file of the matches d[k..], the k-th stamped 2k
OrderFile(d, k, base) ==
    IF k > Len(d) THEN <<>>
    ELSE LET lag == IF d[k].order = "play" THEN 1
                    ELSE IF d[k].order = "stamps" THEN -1 ELSE 0
             played == MatchRows(PlainIds[k], 2 * k, lag, d[k].c1, d[k].c2,
                                 <<Score7, Score9>>, base)
             rows == IF d[k].order = "backwards" THEN Backwards(played, base)
                     ELSE played
         IN rows \o OrderFile(d, k + 1, base + Len(rows))

OrderCorpora ==
    UNION {{OrderFile(d, 1, 0) : d \in [1..m -> OrderMatches]} :
           m \in 0..MaxFiles}

InitOrder ==
    \/ InitWith(OrderCorpora, TRUE)
    \/ InitWith(OrderCorpora, FALSE)

SpecOrder == InitOrder /\ [][Next]_vars

\* the over-level queries the second pass makes for the rows of a match
QueriesOf(m) ==
    OverQueries(GroupRows(df, m.rid), 1, <<>>, m.inn2_start_idx)

\* every over the second pass completes for the match queries the signature
\* and carries the innings and over number of an entry the first pass
\* stored for the match
OversAgree(m) ==
    \A k \in 1..Len(QueriesOf(m)) :
      LET q == QueriesOf(m)[k] IN
      \E j \in 1..Len(hist_overs) :
        /\ hist_overs[j].rid = m.rid
        /\ hist_overs[j].sig = q.sig
        /\ hist_overs[j].id = OverId(m.rid, q.inn, q.num)

\* the rows of the match stand in the file in the order of their ball
\* numbers, which are distinct, and their timestamps never decrease along it
InPlayOrder(rid) ==
    \A a \in RowsOf(rid), b \in RowsOf(rid) :
      /\ (a.bn = b.bn => a = b)
      /\ (a.bn < b.bn => (a.idx < b.idx /\ (hasTs => a.ts <= b.ts)))

\* C39 as stated: for every match of every file, whatever the order of its
\* rows, each over the annotation pass completes has the signature, innings
\* and over number of an entry the indexing pass stored for that match
C39_OversAgreeAnyOrder ==
    \A m \in Metas : pc # "start" => OversAgree(m)

\* C39: the same for every match whose rows stand in the file in play order
C39_OversAgreeInPlayOrder ==
    \A m \in Metas : (pc # "start" /\ InPlayOrder(m.rid)) => OversAgree(m)

\* a file of two matches, annotated: one in play order whose overs of both
\* innings were queried under the identifiers stored, the other not in play
\* order
C39_Witness ==
    /\ pc = "done"
    /\ \E m \in Metas, x \in Metas :
         /\ InPlayOrder(m.rid)
         /\ ~InPlayOrder(x.rid)
         /\ \E k \in 1..Len(QueriesOf(m)) :
              /\ QueriesOf(m)[k].inn = 2
              /\ QueriesOf(m)[k].sig = Join(OverA, ",")
              /\ ann[QueriesOf(m)[k].idx].ol = OverId(m.rid, 1, 1)
         /\ \E k \in 1..Len(QueriesOf(m)) :
              /\ QueriesOf(m)[k].inn = 1
              /\ QueriesOf(m)[k].num = 2

====
